---- MODULE Spec2Model ----
(***************************************************************************)
(* Model of the Readwise ingestion pipeline (src/lib/readwiseSync.ts) and  *)
(* of the TF-IDF keyword model it uses (src/lib/ai/extract-keywords.ts).   *)
(*                                                                         *)
(* Texts are sequences of lower-case words; an HTML body is a sequence of  *)
(* tokens, tags among them.  A dense vector is named by the text it        *)
(* embeds.  The vector store, the reader API and the embedding service are *)
(* the environment: every response they can give is a choice of the        *)
(* action that awaits it.                                                  *)
(***************************************************************************)
EXTENDS Integers, Sequences, FiniteSets, TLC

VARIABLES
  \* ---- vector store (Pinecone index) ----
  store,            \* set of records, at most one per record id
  \* ---- SimpleTfIdf globalTfIdf ----
  tfidf,            \* [documents, documentFrequency, documentCount, built]
  \* ---- syncReadwise: locals of the running invocation ----
  pc,               \* where the invocation is suspended ("idle": none running)
  forceUpdate,
  existingDocIds,
  processedDocIds,
  allDocuments,
  locIdx,           \* index into locations
  cursor,           \* 0 is null
  docIdx,           \* phase 2: index into allDocuments
  chunks,           \* processDocument: the chunker's result
  vectors,          \* processDocument: vectors embedded so far
  upIdx,            \* processDocument: i of the chunk upsert loop
  outcome,          \* how the last invocation ended: "none", "done", "failed"
  \* ---- history of the run (observations, never read by the program) ----
  runNo,            \* number of invocations started
  storeAtStart,     \* the store when the running invocation started
  prev,             \* [force, outcome, docs] of the invocation before (docs if it completed)
  enumErr,          \* "none", "stats" or "query": error met while enumerating ids
  enumDone,         \* the zero-vector query answered in this run
  lastStatus,       \* HTTP status of the response that stopped the paging (0: none)
  lastReq,          \* [loc, cursor] of the last reader request
  firstRecv,        \* doc id -> <<first document received under that id>>
  tfLog,            \* TF-IDF calls of this run, in order
  disp,             \* phase 2: what happened to allDocuments[i]
  upsertLog,        \* record ids upserted for the current document, in order
  embedIssued,      \* an embedding call was issued in this run
  upsertIssued,     \* an upsert was issued in this run
  partial,          \* last document left partially written by a failed upsert
  writtenThisRun,   \* ids of the records written by this run
  dupDiffers,       \* a duplicate was received whose content differs from the one kept
  embedErr,         \* error of the embedding call that ended this run ("none": no such call)
  scn,              \* the environment's limits: [runs, pageDocs, cursors, ids, bodies]
  \* ---- free use of a SimpleTfIdf instance (SpecTfIdf) ----
  lastOp,           \* the last addDocument / build call made
  qres,             \* the last query, its result and the model it was made on
  \* ---- hybridSearch: one invocation (SpecSearch) ----
  search,
  \* ---- safeEmbed: one invocation (SpecSafeEmbed) ----
  emb,              \* [pc, text, pending]: pending holds the texts of the calls not yet answered
  \* ---- splitToFit: one call (SpecSplit) ----
  split,            \* [pc, text, ctx, parts]
  \* ---- semanticChunksWithOverlap: one call (SpecChunker) ----
  chk,              \* [pc, text, minTokens, maxTokens, paragraphs, windows, i, ...]
  \* ---- toSparseVector: one call (SpecSparse) ----
  sparse,           \* [pc, text, maxTerms, indices, values]
  \* ---- extractTextFromHtml applied twice (SpecHtml) ----
  norm,             \* [pc, html, once, twice]
  \* ---- formatReadwiseContext: one call (SpecFormat) ----
  fmt,              \* [pc, text, processedText] or [pc, matches, result]
  \* ---- generateEmbeddingsBatch: one call (SpecBatch) ----
  bat               \* [pc, texts, k, batch, tokSum, result]

vars == <<store, tfidf, pc, forceUpdate, existingDocIds, processedDocIds,
          allDocuments, locIdx, cursor, docIdx, chunks, vectors, upIdx,
          outcome, runNo, storeAtStart, prev, enumErr, enumDone, lastStatus,
          lastReq, firstRecv, tfLog, disp, upsertLog, embedIssued,
          upsertIssued, partial, writtenThisRun, dupDiffers, embedErr, scn, lastOp,
          qres, search, emb, split, chk, sparse, norm, fmt, bat>>

\* the variables of the components used on their own
libVars == <<search, emb, split, chk, sparse, norm, fmt, bat>>

syncVars == <<store, pc, forceUpdate, existingDocIds, processedDocIds,
              allDocuments, locIdx, cursor, docIdx, chunks, vectors, upIdx,
              outcome, runNo, storeAtStart, prev, enumErr, enumDone,
              lastStatus, lastReq, firstRecv, tfLog, disp, upsertLog,
              embedIssued, upsertIssued, partial, writtenThisRun, dupDiffers,
              embedErr, scn>>

(***************************************************************************)
(* Bounds of the model.                                                    *)
(***************************************************************************)
MaxRuns == 2        \* sync invocations, one after the other
MaxChunks == 2      \* chunks the chunker returns for one document
MaxCursor == 1      \* page cursors the reader hands out per location
MaxPageDocs == 2    \* documents in one page of results
MaxAdds == 3        \* addDocument calls on a free SimpleTfIdf

None == "none"

DocIds == {"d1", "d2"}

(***************************************************************************)
(* Words.  The stop-word list is the stopword package's English list; of   *)
(* the words used here only "the" is on it.                                *)
(***************************************************************************)
Words == {"alpha", "beta", "gamma", "ab", "x", "42", "the"}

\* texts given to a free SimpleTfIdf
TfTexts ==
  { <<"the", "x">>, <<"alpha", "beta">>, <<"beta", "ab", "the", "beta">>,
    <<"42", "alpha">> }
StopWords == {"the"}
NumericWords == {"42"}

(***************************************************************************)
(* SimpleTfIdf.  A term-frequency map is a sequence of [term, n] in the    *)
(* order the terms were first set (a JavaScript Map iterates in insertion  *)
(* order).  A score tf * log(N / df) is kept as [tf, n, df].               *)
(***************************************************************************)
NewTfIdf ==
  [documents |-> <<>>, documentFrequency |-> <<>>, documentCount |-> 0,
   built |-> FALSE]

extractTerms(text) ==
  SelectSeq(text, LAMBDA w : w \notin StopWords /\ Len(w) >= 2)

RECURSIVE countTerms(_, _)
countTerms(terms, termFreq) ==
  IF terms = <<>> THEN termFreq
  ELSE LET term == Head(terms)
           at == {i \in 1..Len(termFreq) : termFreq[i].term = term}
       IN countTerms(Tail(terms),
            IF at = {} THEN Append(termFreq, [term |-> term, n |-> 1])
            ELSE LET i == CHOOSE j \in at : TRUE
                 IN [termFreq EXCEPT ![i].n = @ + 1])

addDocumentKeepsBuilt(m, docId, text) ==
  [m EXCEPT !.documents = (docId :> countTerms(extractTerms(text), <<>>)) @@ @,
            !.documentCount = @ + 1]

addDocument(m, docId, text) ==
  [m EXCEPT !.built = FALSE,
            !.documents = (docId :> countTerms(extractTerms(text), <<>>)) @@ @,
            !.documentCount = @ + 1]

termsOf(termFreq) == {termFreq[i].term : i \in 1..Len(termFreq)}

build(m) ==
  LET all == UNION {termsOf(m.documents[d]) : d \in DOMAIN m.documents}
  IN [m EXCEPT !.documentFrequency =
                  [t \in all |->
                     Cardinality({d \in DOMAIN m.documents :
                                    t \in termsOf(m.documents[d])})],
               !.built = TRUE]

ZeroScore == [tf |-> 0, n |-> 1, df |-> 1]
NotBuilt == [ok |-> FALSE, val |-> "TF-IDF model not built. Call build() first."]

freqOf(termFreq, term) ==
  LET at == {i \in 1..Len(termFreq) : termFreq[i].term = term}
  IN IF at = {} THEN 0 ELSE termFreq[CHOOSE i \in at : TRUE].n

tfIdf(m, docId, term) ==
  IF ~m.built THEN NotBuilt
  ELSE IF docId \notin DOMAIN m.documents THEN [ok |-> TRUE, val |-> ZeroScore]
  ELSE LET tf == freqOf(m.documents[docId], term)
           df == IF term \in DOMAIN m.documentFrequency
                 THEN m.documentFrequency[term] ELSE 0
       IN IF tf = 0 \/ df = 0 THEN [ok |-> TRUE, val |-> ZeroScore]
          ELSE [ok |-> TRUE, val |-> [tf |-> tf, n |-> m.documentCount, df |-> df]]

RECURSIVE Pow(_, _)
Pow(b, e) == IF e = 0 THEN 1 ELSE b * Pow(b, e - 1)

\* a.tf * log(a.n / a.df) < b.tf * log(b.n / b.df), in integers
scoreLess(a, b) == Pow(a.n, a.tf) * Pow(b.df, b.tf) < Pow(b.n, b.tf) * Pow(a.df, a.tf)

\* Array.prototype.sort((a, b) => b.weight - a.weight): stable, descending
RECURSIVE sortByWeight(_)
sortByWeight(s) ==
  IF s = <<>> THEN <<>>
  ELSE LET rest == sortByWeight(SubSeq(s, 1, Len(s) - 1))
           e == s[Len(s)]
           before == {i \in 1..Len(rest) : scoreLess(rest[i].weight, e.weight)}
           k == IF before = {} THEN Len(rest) + 1
                ELSE CHOOSE i \in before : \A j \in before : i <= j
       IN SubSeq(rest, 1, k - 1) \o <<e>> \o SubSeq(rest, k, Len(rest))

getTopTerms(m, docId, n) ==
  IF ~m.built THEN NotBuilt
  ELSE IF docId \notin DOMAIN m.documents THEN [ok |-> TRUE, val |-> <<>>]
  ELSE LET termFreq == m.documents[docId]
           scored == [i \in 1..Len(termFreq) |->
                        [term |-> termFreq[i].term,
                         weight |-> tfIdf(m, docId, termFreq[i].term).val]]
           termScores == SelectSeq(scored,
                           LAMBDA e : Len(e.term) >= 3 /\ e.term \notin NumericWords)
           sorted == sortByWeight(termScores)
       IN [ok |-> TRUE,
           val |-> SubSeq(sorted, 1, IF n < Len(sorted) THEN n ELSE Len(sorted))]

(***************************************************************************)
(* Reader documents.  html_content is a token sequence (tags and words),   *)
(* content a word sequence; <<>> is the absent or empty field.             *)
(***************************************************************************)
Tags == {"<p>", "</p>", "<br>"}

NoBody == [html_content |-> <<>>, content |-> <<>>]
HtmlBody == [html_content |-> <<"<p>", "alpha", "beta", "</p>">>, content |-> <<>>]
PlainBody == [html_content |-> <<>>, content |-> <<"alpha", "gamma">>]
EmptyHtmlBody == [html_content |-> <<"<p>", "<br>", "</p>">>, content |-> <<"beta">>]

Bodies == {NoBody, HtmlBody, PlainBody, EmptyHtmlBody}

ReaderDocs == {[id |-> d, body |-> b] : d \in scn.ids, b \in scn.bodies}

\* The words left once the tags are replaced or stripped and the text trimmed.
extractTextFromHtml(html) == SelectSeq(html, LAMBDA t : t \notin Tags)

\* doc.html_content ? extractTextFromHtml(doc.html_content) : doc.content || ''
bodyText(doc) ==
  IF doc.body.html_content # <<>> THEN extractTextFromHtml(doc.body.html_content)
  ELSE doc.body.content

(***************************************************************************)
(* Vector store.  A record id is "<docId>-header" or "<docId>-chunk-<i>".  *)
(***************************************************************************)
headerId(docId) == [doc |-> docId, kind |-> "header", i |-> 0]
chunkId(docId, i) == [doc |-> docId, kind |-> "chunk", i |-> i]

\* lines 258-275 with the header flag of the chunk records
headerRecordNotHeader(doc) ==
  [id |-> headerId(doc.id),
   metadata |-> [doc_id |-> doc.id, header |-> FALSE, chunk_id |-> -1]]

headerRecord(doc) ==
  [id |-> headerId(doc.id),
   metadata |-> [doc_id |-> doc.id, header |-> TRUE, chunk_id |-> -1]]

chunkRecord(doc, i) ==
  [id |-> chunkId(doc.id, i),
   metadata |-> [doc_id |-> doc.id, header |-> FALSE, chunk_id |-> i]]

\* index.upsert([record]): the record replaces the one with the same id
upsert(s, record) == {r \in s : r.id # record.id} \cup {record}

QueryTopK == 10000

\* index.query with topK: 0
queryMatchesTopKZero(s) == {{}}

\* index.query({vector: zeroVector, topK}): the topK nearest records
queryMatches(s) ==
  {m \in SUBSET s :
     Cardinality(m) = IF Cardinality(s) < QueryTopK THEN Cardinality(s) ELSE QueryTopK}

\* match.metadata?.doc_id, else the prefix of the record id
matchDocId(match) ==
  IF match.metadata.doc_id # "" THEN match.metadata.doc_id ELSE match.id.doc

recordsOf(s, docId) == {r \in s : r.metadata.doc_id = docId}
chunkIdsOf(s, docId) ==
  {r.metadata.chunk_id : r \in {x \in recordsOf(s, docId) : ~x.metadata.header}}
hasHeader(s, docId) == \E r \in recordsOf(s, docId) : r.metadata.header

locations == <<"new", "later", "archive">>

(***************************************************************************)
(* State after module load: an empty index, an empty global TF-IDF model,  *)
(* no sync running.                                                        *)
(***************************************************************************)
NoPrev == [force |-> FALSE, outcome |-> "none", docs |-> <<>>]
NoPartial == [id |-> None, run |-> 0, written |-> {}, missing |-> {}]
NoQuery == [op |-> None, res |-> [ok |-> TRUE, val |-> <<>>], model |-> NewTfIdf]

\* every variable but the store and the environment's limits
NoSearch == [pc |-> "idle"]
NoEmbed == [pc |-> "idle"]
NoSplit == [pc |-> "idle"]
NoChunking == [pc |-> "idle"]
NoSparse == [pc |-> "idle"]
NoNorm == [pc |-> "idle"]
NoFormat == [pc |-> "idle"]
NoBatch == [pc |-> "idle"]

\* no component is in use on its own
InitLib ==
  /\ search = NoSearch
  /\ emb = NoEmbed
  /\ split = NoSplit
  /\ chk = NoChunking
  /\ sparse = NoSparse
  /\ norm = NoNorm
  /\ fmt = NoFormat
  /\ bat = NoBatch

InitRest ==
  /\ tfidf = NewTfIdf
  /\ pc = "idle"
  /\ forceUpdate = FALSE
  /\ existingDocIds = {}
  /\ processedDocIds = {}
  /\ allDocuments = <<>>
  /\ locIdx = 1
  /\ cursor = 0
  /\ docIdx = 0
  /\ chunks = <<>>
  /\ vectors = <<>>
  /\ upIdx = 0
  /\ outcome = "none"
  /\ runNo = 0
  /\ storeAtStart = {}
  /\ prev = NoPrev
  /\ enumErr = "none"
  /\ enumDone = FALSE
  /\ lastStatus = 0
  /\ lastReq = [loc |-> 0, cursor |-> 0]
  /\ firstRecv = [d \in DocIds |-> <<>>]
  /\ tfLog = <<>>
  /\ disp = <<>>
  /\ upsertLog = <<>>
  /\ embedIssued = FALSE
  /\ upsertIssued = FALSE
  /\ partial = NoPartial
  /\ writtenThisRun = {}
  /\ dupDiffers = FALSE
  /\ embedErr = "none"
  /\ lastOp = None
  /\ qres = NoQuery

\* Several sync invocations, the reader answering each location with one page
\* of at most one document.
Init ==
  /\ store = {}
  /\ scn = [runs |-> MaxRuns, pageDocs |-> 1, cursors |-> 0, ids |-> {"d1"},
            bodies |-> Bodies]
  /\ InitRest
  /\ InitLib

\* One sync invocation over a paged reader; the index is empty or holds the
\* header of a document synced before.
InitPaging ==
  /\ store \in {{}, {headerRecord([id |-> "d1"])}}
  /\ scn = [runs |-> 1, pageDocs |-> MaxPageDocs, cursors |-> MaxCursor, ids |-> DocIds,
            bodies |-> {NoBody, HtmlBody}]
  /\ InitRest
  /\ InitLib

(***************************************************************************)
(* syncReadwise(updatedAfter, forceUpdate), lines 305-329: entry, up to    *)
(* the first await.                                                        *)
(***************************************************************************)
StartSync(force) ==
  /\ pc = "idle"
  /\ runNo < scn.runs
  /\ runNo' = runNo + 1
  /\ forceUpdate' = force
  /\ processedDocIds' = {}
  /\ existingDocIds' = {}
  /\ allDocuments' = <<>>
  /\ locIdx' = 1
  /\ cursor' = 0
  /\ pc' = IF force THEN "fetch" ELSE "stats"
  /\ outcome' = "none"
  /\ docIdx' = 0
  /\ chunks' = <<>>
  /\ vectors' = <<>>
  /\ upIdx' = 0
  /\ storeAtStart' = store
  /\ prev' = IF runNo = 0 THEN NoPrev
             ELSE [force |-> forceUpdate, outcome |-> outcome,
                   docs |-> IF outcome = "done" THEN allDocuments ELSE <<>>]
  /\ enumErr' = "none"
  /\ enumDone' = FALSE
  /\ lastStatus' = 0
  /\ lastReq' = [loc |-> 0, cursor |-> 0]
  /\ firstRecv' = [d \in DocIds |-> <<>>]
  /\ tfLog' = <<>>
  /\ disp' = <<>>
  /\ upsertLog' = <<>>
  /\ embedIssued' = FALSE
  /\ upsertIssued' = FALSE
  /\ writtenThisRun' = {}
  /\ dupDiffers' = FALSE
  /\ embedErr' = "none"
  /\ UNCHANGED <<store, tfidf, partial, scn, lastOp, qres, libVars>>

\* what the run keeps when only pc and the id set move
runFrame ==
  UNCHANGED <<store, tfidf, forceUpdate, processedDocIds, allDocuments, locIdx,
              cursor, docIdx, chunks, vectors, upIdx, outcome, runNo,
              storeAtStart, prev, lastStatus, lastReq, firstRecv, tfLog, disp,
              upsertLog, embedIssued, upsertIssued, partial, writtenThisRun, dupDiffers, embedErr, scn,
              lastOp, qres, libVars>>

\* catch blocks of fetchExistingDocumentIds, lines 81-91
enumCatchRethrows(where) ==
  /\ pc' = "idle"
  /\ outcome' = "failed"
  /\ existingDocIds' = {}
  /\ enumErr' = where
  /\ enumDone' = FALSE
  /\ UNCHANGED <<store, tfidf, forceUpdate, processedDocIds, allDocuments, locIdx,
                 cursor, docIdx, chunks, vectors, upIdx, runNo,
                 storeAtStart, prev, lastStatus, lastReq, firstRecv, tfLog, disp,
                 upsertLog, embedIssued, upsertIssued, partial, writtenThisRun, dupDiffers, embedErr, scn,
              lastOp, qres, libVars>>

enumCatch(where) ==
  /\ pc' = "fetch"
  /\ existingDocIds' = {}
  /\ enumErr' = where
  /\ enumDone' = FALSE
  /\ runFrame

\* fetchExistingDocumentIds, lines 36-48: await index.describeIndexStats()
DescribeIndexStats ==
  /\ pc = "stats"
  /\ \E ok \in BOOLEAN :
       IF ~ok THEN enumCatch("stats")
       ELSE /\ pc' = IF Cardinality(store) = 0 THEN "fetch" ELSE "query"
            /\ UNCHANGED <<existingDocIds, enumErr, enumDone>>
            /\ runFrame

\* fetchExistingDocumentIds, lines 53-86: await index.query(zero vector)
ZeroVectorQuery ==
  /\ pc = "query"
  /\ \E ok \in BOOLEAN :
       IF ~ok THEN enumCatch("query")
       ELSE \E matches \in queryMatches(store) :
              /\ existingDocIds' = {matchDocId(m) : m \in matches}
              /\ pc' = "fetch"
              /\ enumDone' = TRUE
              /\ UNCHANGED enumErr
              /\ runFrame

(***************************************************************************)
(* Paging the reader API, lines 341-445.                                   *)
(***************************************************************************)
RECURSIVE seqsUpTo(_, _)
seqsUpTo(S, n) ==
  IF n = 0 THEN {<<>>}
  ELSE LET shorter == seqsUpTo(S, n - 1)
       IN shorter \cup {Append(q, x) : q \in {t \in shorter : Len(t) = n - 1}, x \in S}

Pages == seqsUpTo(ReaderDocs, scn.pageDocs)

isOk(status) == status >= 200 /\ status <= 299

\* every response the reader can give to a request made with cursor c: a
\* page, or a failure; the body of a failure is read as a page only by 429
response(status, json, parses, results, next) ==
  [status |-> status, json |-> json, parses |-> parses, results |-> results,
   nextPageCursor |-> next]

Responses(c) ==
  {response(200, TRUE, TRUE, p, n) :
     p \in Pages, n \in {0} \cup {x \in 1..scn.cursors : x > c}}
  \cup {response(429, TRUE, TRUE, p, 0) : p \in Pages}
  \cup {response(st, TRUE, TRUE, <<>>, 0) : st \in {401, 500}}
  \cup {response(200, FALSE, TRUE, <<>>, 0), response(200, TRUE, FALSE, <<>>, 0)}

\* lines 414-429 with the duplicate kept: the check of processedDocIds left out
RECURSIVE collectAll(_, _)
collectAll(results, acc) ==
  IF results = <<>> THEN acc
  ELSE collectAll(Tail(results),
         [ids |-> acc.ids \cup {Head(results).id},
          docs |-> Append(acc.docs, Head(results))])

\* lines 414-429: for (const doc of results) { skip duplicates; push }
RECURSIVE collect(_, _)
collect(results, acc) ==
  IF results = <<>> THEN acc
  ELSE LET doc == Head(results)
       IN collect(Tail(results),
            IF doc.id \in acc.ids THEN acc
            ELSE [ids |-> acc.ids \cup {doc.id}, docs |-> Append(acc.docs, doc)])

\* the first document of results with this id, if any
firstWithId(results, d) ==
  LET at == {i \in 1..Len(results) : results[i].id = d}
  IN IF at = {} THEN <<>>
     ELSE <<results[CHOOSE i \in at : \A j \in at : i <= j]>>

fail ==
  /\ pc' = "idle"
  /\ outcome' = "failed"

fetchFrame ==
  UNCHANGED <<store, tfidf, forceUpdate, existingDocIds, docIdx, chunks, vectors,
              upIdx, runNo, storeAtStart, prev, enumErr, enumDone, tfLog, disp,
              upsertLog, embedIssued, upsertIssued, partial, writtenThisRun, embedErr,
              scn, lastOp, qres, libVars>>

\* line 372-377 with the response of a 429 read like a page
on429Collects(resp) ==
  LET got == collect(resp.results, [ids |-> processedDocIds, docs |-> allDocuments])
  IN /\ pc' = "wait"
     /\ processedDocIds' = got.ids
     /\ allDocuments' = got.docs
     /\ UNCHANGED <<locIdx, cursor, outcome>>

\* lines 372-377: if (res.status === 429) { await sleep; continue }
on429(resp) ==
  /\ pc' = "wait"
  /\ UNCHANGED <<processedDocIds, allDocuments, locIdx, cursor, outcome>>

\* lines 406-441: a parsed page
onPage(resp) ==
  LET got == collect(resp.results, [ids |-> processedDocIds, docs |-> allDocuments])
  IN /\ processedDocIds' = got.ids
     /\ allDocuments' = got.docs
     /\ IF resp.nextPageCursor # 0
        THEN /\ cursor' = resp.nextPageCursor
             /\ pc' = "fetch"
             /\ UNCHANGED locIdx
        ELSE IF locIdx < Len(locations)
        THEN /\ locIdx' = locIdx + 1
             /\ cursor' = 0
             /\ pc' = "fetch"
        ELSE /\ pc' = "phase1"
             /\ UNCHANGED <<locIdx, cursor>>
     /\ UNCHANGED outcome

\* lines 347-441: one pass of the while loop, from the fetch to the next await
FetchPage ==
  /\ pc = "fetch"
  /\ \E resp \in Responses(cursor) :
       /\ lastStatus' = IF isOk(resp.status) /\ resp.json /\ resp.parses THEN 0 ELSE resp.status
       /\ lastReq' = [loc |-> locIdx, cursor |-> cursor]
       /\ firstRecv' =
            IF isOk(resp.status) /\ resp.json /\ resp.parses
            THEN [d \in DocIds |->
                    IF firstRecv[d] # <<>> THEN firstRecv[d]
                    ELSE firstWithId(resp.results, d)]
            ELSE firstRecv
       /\ dupDiffers' =
            (dupDiffers \/
               (isOk(resp.status) /\ resp.json /\ resp.parses /\
                  \E i \in 1..Len(resp.results) :
                    LET d == resp.results[i].id
                    IN firstRecv'[d] # <<resp.results[i]>>))
       /\ IF resp.status = 429 THEN on429(resp)
          ELSE IF ~isOk(resp.status) \/ ~resp.json \/ ~resp.parses
          THEN fail /\ UNCHANGED <<processedDocIds, allDocuments, locIdx, cursor>>
          ELSE onPage(resp)
       /\ fetchFrame

\* line 375: the Retry-After sleep is over; the loop continues
RetryAfterWait ==
  /\ pc = "wait"
  /\ pc' = "fetch"
  /\ lastStatus' = 0
  /\ UNCHANGED <<processedDocIds, allDocuments, locIdx, cursor, outcome, lastReq,
                 firstRecv, dupDiffers>>
  /\ fetchFrame

(***************************************************************************)
(* processDocuments, lines 151-169.                                        *)
(***************************************************************************)
\* lines 157 and 175 with the check left out
isExistingNever(doc, existing) == FALSE

\* lines 157 and 175: existingIds.has(doc.id)
isExisting(doc, existing) == doc.id \in existing

\* lines 156-162: the documents phase 1 adds, in order
phase1Docs(docs, existing) ==
  SelectSeq(docs, LAMBDA doc : ~isExisting(doc, existing) /\ bodyText(doc) # <<>>)

RECURSIVE addAll(_, _)
addAll(m, docs) ==
  IF docs = <<>> THEN m
  ELSE addAll(addDocument(m, Head(docs).id, bodyText(Head(docs))), Tail(docs))

\* lines 156-163 with buildTfIdfModel() called before the loop
phase1BuildsFirst(m, docs, existing) ==
  [model |-> addAll(build(m), phase1Docs(docs, existing)),
   log |-> <<"build">> \o [i \in 1..Len(phase1Docs(docs, existing)) |-> "add"]]

\* lines 156-163: add every new document with a body, then build once
phase1(m, docs, existing) ==
  [model |-> build(addAll(m, phase1Docs(docs, existing))),
   log |-> [i \in 1..Len(phase1Docs(docs, existing)) |-> "add"] \o <<"build">>]

docFrame ==
  UNCHANGED <<forceUpdate, existingDocIds, processedDocIds, allDocuments, locIdx,
              cursor, runNo, storeAtStart, prev, enumErr, enumDone, lastStatus,
              lastReq, firstRecv, dupDiffers, scn, lastOp, qres, libVars>>

\* lines 166-168: the for loop of phase 2 moves to document i, or the sync returns
advance(i) ==
  /\ docIdx' = i
  /\ IF i > Len(allDocuments)
     THEN pc' = "idle" /\ outcome' = "done"
     ELSE pc' = "doc" /\ UNCHANGED outcome

Phase1 ==
  /\ pc = "phase1"
  /\ LET r == phase1(tfidf, allDocuments, existingDocIds)
     IN /\ tfidf' = r.model
        /\ tfLog' = tfLog \o r.log
  /\ advance(1)
  /\ UNCHANGED <<store, chunks, vectors, upIdx, disp, upsertLog, embedIssued,
                 upsertIssued, partial, writtenThisRun, embedErr>>
  /\ docFrame

(***************************************************************************)
(* processDocument, lines 171-303.                                         *)
(***************************************************************************)
TfIdfKeywordCount == 20

headerText(doc) == [src |-> doc.id, part |-> -1]
chunkText(doc, i) == [src |-> doc.id, part |-> i]

\* lines 175-215: from the entry to the call of the chunker
BeginDocument ==
  /\ pc = "doc"
  /\ LET doc == allDocuments[docIdx]
     IN IF isExisting(doc, existingDocIds)
        THEN /\ disp' = Append(disp, "existing")
             /\ advance(docIdx + 1)
             /\ UNCHANGED tfLog
        ELSE IF bodyText(doc) = <<>>
        THEN /\ disp' = Append(disp, "nobody")
             /\ advance(docIdx + 1)
             /\ UNCHANGED tfLog
        ELSE LET top == getTopTerms(tfidf, doc.id, TfIdfKeywordCount)
             IN /\ disp' = Append(disp, "processed")
                /\ tfLog' = Append(tfLog, IF top.ok THEN "top" ELSE "topNotBuilt")
                /\ IF top.ok THEN pc' = "chunk" /\ UNCHANGED outcome ELSE fail
                /\ UNCHANGED docIdx
  /\ chunks' = <<>>
  /\ vectors' = <<>>
  /\ upIdx' = 0
  /\ upsertLog' = <<>>
  /\ UNCHANGED <<store, tfidf, embedIssued, upsertIssued, partial, writtenThisRun,
                 embedErr>>
  /\ docFrame

\* what openai.embeddings.create rejects with: HTTP 400 for an input over the
\* context length, or anything else (network, rate limit, server)
EmbedErrors == {"contextLength", "other"}

\* lines 219-224: await semanticChunksWithOverlap(bodyText, ...); the chunker
\* embeds its windows when it has any, and an embedding error ends the sync
ChunkDocument ==
  /\ pc = "chunk"
  /\ LET doc == allDocuments[docIdx]
     IN \/ \E k \in 0..MaxChunks, embeds \in BOOLEAN :
             /\ chunks' = [i \in 1..k |-> chunkText(doc, i - 1)]
             /\ embedIssued' = (embedIssued \/ embeds)
             /\ pc' = "embed"
             /\ UNCHANGED <<outcome, embedErr>>
        \/ /\ embedIssued' = TRUE
           /\ embedErr' \in EmbedErrors
           /\ fail
           /\ UNCHANGED chunks
  /\ UNCHANGED <<store, tfidf, docIdx, vectors, upIdx, tfLog, disp, upsertLog,
                 upsertIssued, partial, writtenThisRun>>
  /\ docFrame

\* the loop of lines 233-246 left once the header has its vector
headerEmbedded(n, texts) == n >= 1

\* lines 233-246: the loop is left when every text has its vector
allEmbedded(n, texts) == n = Len(texts)

\* lines 229-246: the embedding loop over [superHeaderText, ...chunks], one
\* awaited call a text; the first call that fails ends the sync
EmbedTexts ==
  /\ pc = "embed"
  /\ LET doc == allDocuments[docIdx]
         texts == <<headerText(doc)>> \o chunks
     IN \E n \in 0..Len(texts) :
          /\ vectors' = SubSeq(texts, 1, n)
          /\ IF allEmbedded(n, texts)
             THEN pc' = "upsertHeader" /\ UNCHANGED <<outcome, embedErr>>
             ELSE fail /\ embedErr' \in EmbedErrors
  /\ embedIssued' = TRUE
  /\ UNCHANGED <<store, tfidf, docIdx, chunks, upIdx, tfLog, disp, upsertLog,
                 upsertIssued, partial, writtenThisRun>>
  /\ docFrame

UpsertResults == {"ok", "failed", "failedAfterWrite"}

\* what an awaited index.upsert([record]) leaves in the store: a call that
\* fails may or may not have written the record
written(s, record, res) ==
  IF res \in {"ok", "failedAfterWrite"} THEN upsert(s, record) ELSE s

\* line 279 with the loop started at 1
firstChunkIndexOne == 0 + 1

\* line 279: for (let i = 0; ...)
firstChunkIndex == 0

upsertFrame ==
  UNCHANGED <<tfidf, chunks, vectors, tfLog, disp, embedIssued, embedErr>>

\* lines 258-275: await index.upsert([header record])
UpsertHeader ==
  /\ pc = "upsertHeader"
  /\ LET doc == allDocuments[docIdx]
         record == headerRecord(doc)
     IN \E res \in UpsertResults :
          /\ store' = written(store, record, res)
          /\ writtenThisRun' = IF res # "failed"
                               THEN writtenThisRun \cup {record.id} ELSE writtenThisRun
          /\ upsertLog' = Append(upsertLog, record.id)
          /\ IF res # "ok" THEN fail /\ UNCHANGED <<docIdx, upIdx>>
             ELSE IF firstChunkIndex < Len(chunks)
             THEN /\ pc' = "upsertChunk"
                  /\ upIdx' = firstChunkIndex
                  /\ UNCHANGED <<docIdx, outcome>>
             ELSE /\ upIdx' = firstChunkIndex
                  /\ advance(docIdx + 1)
  /\ upsertIssued' = TRUE
  /\ UNCHANGED partial
  /\ upsertFrame
  /\ docFrame

\* lines 279-299: one pass of the chunk loop, await index.upsert([chunk record])
UpsertChunk ==
  /\ pc = "upsertChunk"
  /\ LET doc == allDocuments[docIdx]
         record == chunkRecord(doc, upIdx)
     IN \E res \in UpsertResults :
          /\ store' = written(store, record, res)
          /\ writtenThisRun' = IF res # "failed"
                               THEN writtenThisRun \cup {record.id} ELSE writtenThisRun
          /\ upsertLog' = Append(upsertLog, record.id)
          /\ IF res # "ok"
             THEN /\ fail
                  /\ UNCHANGED <<docIdx, upIdx>>
                  /\ LET missing == {j \in upIdx..(Len(chunks) - 1) :
                                       j \notin chunkIdsOf(store', doc.id)}
                     IN partial' = IF upIdx >= 1 /\ missing # {}
                                   THEN [id |-> doc.id, run |-> runNo,
                                         written |-> chunkIdsOf(store', doc.id),
                                         missing |-> missing]
                                   ELSE partial
             ELSE /\ UNCHANGED partial
                  /\ IF upIdx + 1 < Len(chunks)
                     THEN /\ upIdx' = upIdx + 1
                          /\ UNCHANGED <<pc, docIdx, outcome>>
                     ELSE /\ upIdx' = upIdx + 1
                          /\ advance(docIdx + 1)
  /\ upsertIssued' = TRUE
  /\ upsertFrame
  /\ docFrame

(***************************************************************************)
(* A sync invocation runs alone: the next one starts when it has ended.    *)
(***************************************************************************)
Next ==
  \/ \E force \in BOOLEAN : StartSync(force)
  \/ DescribeIndexStats
  \/ ZeroVectorQuery
  \/ FetchPage
  \/ RetryAfterWait
  \/ Phase1
  \/ BeginDocument
  \/ ChunkDocument
  \/ EmbedTexts
  \/ UpsertHeader
  \/ UpsertChunk

Spec == Init /\ [][Next]_vars

SpecPaging == InitPaging /\ [][Next]_vars

(***************************************************************************)
(* A SimpleTfIdf instance used freely: addDocument, build, tfIdf and       *)
(* getTopTerms called in any order.                                        *)
(***************************************************************************)
TfAddDocument ==
  /\ tfidf.documentCount < MaxAdds
  /\ \E docId \in DocIds, text \in TfTexts :
       tfidf' = addDocument(tfidf, docId, text)
  /\ lastOp' = "add"
  /\ qres' = NoQuery
  /\ UNCHANGED <<syncVars, libVars>>

TfBuild ==
  /\ tfidf' = build(tfidf)
  /\ lastOp' = "build"
  /\ qres' = NoQuery
  /\ UNCHANGED <<syncVars, libVars>>

TfIdfQuery ==
  /\ \E docId \in DocIds, term \in Words :
       qres' = [op |-> "tfIdf", res |-> tfIdf(tfidf, docId, term), model |-> tfidf]
  /\ UNCHANGED <<tfidf, lastOp>>
  /\ UNCHANGED <<syncVars, libVars>>

GetTopTermsQuery ==
  /\ \E docId \in DocIds, n \in {1, TfIdfKeywordCount} :
       qres' = [op |-> "getTopTerms", res |-> getTopTerms(tfidf, docId, n),
                model |-> tfidf]
  /\ UNCHANGED <<tfidf, lastOp>>
  /\ UNCHANGED <<syncVars, libVars>>

NextTfIdf ==
  \/ TfAddDocument
  \/ TfBuild
  \/ TfIdfQuery
  \/ GetTopTermsQuery

SpecTfIdf == Init /\ [][NextTfIdf]_vars

(***************************************************************************)
(* Retrieval: generateEnhancedQuery and hybridSearch,                      *)
(* src/lib/ai/readwise-search.ts.  Scores are integers; a match carries    *)
(* hasScore = FALSE when the store gave it no score.                       *)
(***************************************************************************)
MaxTopK == 2          \* topK argument of hybridSearch
MaxScore == 2         \* largest score the store gives a match
MaxHeaderMatches == 2 \* matches in the answer to the header query
MaxChunkMatches == 3  \* matches in the answer to the chunk query

RawQueries == {<<"the", "alpha">>}

\* everything model.generateContent(prompt) can do: throw, or complete with
\* a text.  block: the text has a {...} block; parses: JSON.parse accepts it;
\* optimized: the "Optimized Query" field; joinable: "Related Topics" and
\* "Tags" are arrays or absent.
LlmResponses ==
  {[throws |-> TRUE, block |-> FALSE, parses |-> FALSE, optimized |-> "absent",
    joinable |-> TRUE]}
  \cup {[throws |-> FALSE, block |-> FALSE, parses |-> FALSE,
         optimized |-> "absent", joinable |-> TRUE]}
  \cup {[throws |-> FALSE, block |-> TRUE, parses |-> FALSE,
         optimized |-> "absent", joinable |-> TRUE]}
  \cup {[throws |-> FALSE, block |-> TRUE, parses |-> TRUE, optimized |-> o,
         joinable |-> j] :
          o \in {"absent", "empty", "blank", "number", "text"}, j \in BOOLEAN}

\* lines 139-143: the three labelled lines joined
enhancedQueryText(rawQuery) == <<"optimized", "query">> \o rawQuery

\* lines 150-154 with the inner catch left out: what was caught there
\* reaches the caller in place of the raw query
generateEnhancedQueryThrows(rawQuery, r) ==
  IF r.throws THEN rawQuery
  ELSE IF ~r.block THEN rawQuery
  ELSE IF ~r.parses THEN <<"SyntaxError">>
  ELSE IF r.optimized = "number" THEN <<"TypeError">>
  ELSE IF ~r.joinable THEN <<"TypeError">>
  ELSE IF r.optimized \in {"absent", "empty", "blank"} THEN rawQuery
  ELSE enhancedQueryText(rawQuery)

\* lines 32-163.  A TypeError of .trim() or .join() is thrown inside the
\* inner try and caught by it.
generateEnhancedQuery(rawQuery, r) ==
  IF r.throws THEN rawQuery
  ELSE IF ~r.block THEN rawQuery
  ELSE IF ~r.parses THEN rawQuery
  ELSE IF r.optimized = "number" THEN rawQuery
  ELSE IF ~r.joinable THEN rawQuery
  ELSE IF r.optimized \in {"absent", "empty", "blank"} THEN rawQuery
  ELSE enhancedQueryText(rawQuery)

\* stopwords.ts, lines 7-12
stripStops(text) == SelectSeq(text, LAMBDA w : w \notin StopWords)

HeaderTopK == 20
headerThreshold == 1

\* a match of a query: the record's id and doc_id ("" when the metadata has
\* none) and the score
match(id, docId, hasScore, score) ==
  [id |-> id, doc_id |-> docId, hasScore |-> hasScore, score |-> score]

ScoreOptions == {<<TRUE, sc>> : sc \in 0..MaxScore} \cup {<<FALSE, 0>>}

\* header records a query with filter header = true can match; one of them
\* was stored without doc_id
HeaderHits ==
  {match(headerId(d), d, so[1], so[2]) : d \in DocIds, so \in ScoreOptions}
  \cup {match(headerId("d0"), "", so[1], so[2]) : so \in ScoreOptions}

\* the chunk records in the index
StoredChunks == {chunkId("d1", 0), chunkId("d1", 1), chunkId("d2", 0)}

\* chunk records a query with filter header = false, doc_id in docIds can match
ChunkHits(docIds) ==
  {match(c, c.doc, so[1], so[2]) :
     c \in {x \in StoredChunks : \E k \in 1..Len(docIds) : docIds[k] = x.doc},
     so \in ScoreOptions}

\* the answers of index.query: at most n matches, no record twice
distinctSeqs(S, n) ==
  {q \in seqsUpTo(S, n) : \A i, j \in 1..Len(q) : q[i].id = q[j].id => i = j}

min(a, b) == IF a < b THEN a ELSE b

\* match.score && match.score >= threshold
scoreAtLeast(m, threshold) == m.hasScore /\ m.score # 0 /\ m.score >= threshold

\* lines 234-237 with the score test left out
candidateDocIdsAll(matches) ==
  SelectSeq([i \in 1..Len(matches) |-> matches[i].doc_id], LAMBDA d : d # "")

\* lines 234-237
candidateDocIds(matches) ==
  LET kept == SelectSeq(matches, LAMBDA m : scoreAtLeast(m, headerThreshold))
      ids == [i \in 1..Len(kept) |-> kept[i].doc_id]
  IN SelectSeq(ids, LAMBDA d : d # "")

\* lines 298-303
toResult(m) ==
  [score |-> IF m.hasScore THEN m.score ELSE 0, text |-> m.id, docId |-> m.doc_id]

\* lines 295-303
selectChunks(matches, topK, minScore) ==
  LET kept == SelectSeq(matches, LAMBDA m : scoreAtLeast(m, minScore))
      first == SubSeq(kept, 1, min(topK, Len(kept)))
  IN [i \in 1..Len(first) |-> toResult(first[i])]

VectorStoreMessage == "vector store error"

\* hybridSearch(query, topK, minScore) is called
SearchStart ==
  /\ search.pc = "idle"
  /\ \E q \in RawQueries, k \in 0..MaxTopK, ms \in -1..MaxScore :
       search' = [pc |-> "rewrite", query |-> q, topK |-> k, minScore |-> ms]
  /\ UNCHANGED <<syncVars, tfidf, lastOp, qres, emb, split, chk, sparse, norm, fmt, bat>>

\* lines 194-198: await generateEnhancedQuery(query), then stripStops
RewriteQuery ==
  /\ search.pc = "rewrite"
  /\ \E r \in LlmResponses :
       LET optimizedQuery == generateEnhancedQuery(search.query, r)
       IN search' = [pc |-> "embed", query |-> search.query, topK |-> search.topK,
                     minScore |-> search.minScore, llm |-> r,
                     cleanedQuery |-> stripStops(optimizedQuery)]
  /\ UNCHANGED <<syncVars, tfidf, lastOp, qres, emb, split, chk, sparse, norm, fmt, bat>>

\* the fields of an invocation that has ended.  header and chunk tell how
\* the store answered each query: "none" (not asked), "error", or for the
\* header query "hit" / "noHit" (some / no match with a doc_id and a score at
\* or above the threshold), for the chunk query "answered".
ended(sr, queries, header, chunk, docIds, chunkMatches, result) ==
  [pc |-> "done", query |-> sr.query, topK |-> sr.topK, minScore |-> sr.minScore,
   cleanedQuery |-> sr.cleanedQuery, queries |-> queries, header |-> header,
   chunk |-> chunk, docIds |-> docIds, chunkMatches |-> chunkMatches,
   result |-> result]

\* lines 318-321 with the error swallowed
rethrowAsEmpty(message) == [ok |-> TRUE, val |-> <<>>]

\* lines 318-321: catch (error) { throw error }
rethrow(message) == [ok |-> FALSE, val |-> message]

\* lines 203-219: await pc.inference.embed, then toSparseVector
EmbedQuery ==
  /\ search.pc = "embed"
  /\ \/ search' = [pc |-> "header", query |-> search.query, topK |-> search.topK,
                     minScore |-> search.minScore,
                     cleanedQuery |-> search.cleanedQuery]
     \/ search' = ended(search, <<>>, "none", "none", <<>>, <<>>,
                        rethrow("embedding error"))
  /\ UNCHANGED <<syncVars, tfidf, lastOp, qres, emb, split, chk, sparse, norm, fmt, bat>>

\* the invocation goes on to the chunk query
toChunkQuery(header, docIds) ==
  search' = [pc |-> "chunk", query |-> search.query, topK |-> search.topK,
             minScore |-> search.minScore, cleanedQuery |-> search.cleanedQuery,
             queries |-> <<"header">>, header |-> header, docIds |-> docIds]

\* lines 256-259 with the early return left out
noCandidatesGoesOn(header, docIds) == toChunkQuery(header, docIds)

\* lines 256-259: if (!docIds.length) return []
noCandidates(header, docIds) ==
  search' = ended(search, <<"header">>, header, "none", docIds, <<>>,
                  [ok |-> TRUE, val |-> <<>>])

\* lines 224-259: await index.query(header filter), candidates, early return
HeaderQuery ==
  /\ search.pc = "header"
  /\ \/ \E matches \in distinctSeqs(HeaderHits, min(HeaderTopK, MaxHeaderMatches)) :
          LET docIds == candidateDocIds(matches)
              header ==
                IF \E i \in 1..Len(matches) :
                     /\ matches[i].hasScore
                     /\ matches[i].score >= headerThreshold
                     /\ matches[i].doc_id # ""
                THEN "hit" ELSE "noHit"
          IN IF docIds = <<>>
             THEN noCandidates(header, docIds)
             ELSE toChunkQuery(header, docIds)
     \/ search' = ended(search, <<"header">>, "error", "none", <<>>, <<>>,
                        rethrow(VectorStoreMessage))
  /\ UNCHANGED <<syncVars, tfidf, lastOp, qres, emb, split, chk, sparse, norm, fmt, bat>>

\* lines 263-316: await index.query(chunk filter, topK * 2), filter, slice, map
ChunkQuery ==
  /\ search.pc = "chunk"
  /\ LET queries == Append(search.queries, "chunk")
     IN \/ \E matches \in distinctSeqs(ChunkHits(search.docIds),
                                       min(search.topK * 2, MaxChunkMatches)) :
             search' = ended(search, queries, search.header, "answered",
                             search.docIds, matches,
                             [ok |-> TRUE,
                              val |-> selectChunks(matches, search.topK,
                                                   search.minScore)])
        \/ search' = ended(search, queries, search.header, "error",
                           search.docIds, <<>>, rethrow(VectorStoreMessage))
  /\ UNCHANGED <<syncVars, tfidf, lastOp, qres, emb, split, chk, sparse, norm, fmt, bat>>

NextSearch ==
  \/ SearchStart
  \/ RewriteQuery
  \/ EmbedQuery
  \/ HeaderQuery
  \/ ChunkQuery

SpecSearch == Init /\ [][NextSearch]_vars

(***************************************************************************)
(* Character texts, for the functions that cut a text by character         *)
(* position: tokenizer.ts and safeEmbed of embeddings.ts.  A text is a     *)
(* sequence of characters; "a" stands for a letter.  Positions are         *)
(* 0-based in the operators named after String methods.                    *)
(***************************************************************************)
MaxTextLen == 7        \* characters of a text given to splitToFit
MaxEmbedLen == 5       \* characters of a text given to safeEmbed
MaxCtx == 3            \* ctx argument of splitToFit, from 2
EmbedCtx == 2          \* tokens the embedding service accepts (8192, scaled)
SentenceSplitMin == 1  \* index a '.' must exceed to be cut at (100, scaled)

Chars == {"a", ".", " "}
textsUpTo(maxLen) == UNION {[1..n -> Chars] : n \in 0..maxLen}

max(a, b) == IF a > b THEN a ELSE b

\* String.prototype.slice(from, to) and slice(from)
slice(t, from, to) == SubSeq(t, from + 1, to)
sliceFrom(t, from) == SubSeq(t, from + 1, Len(t))

\* String.prototype.trim()
trim(t) ==
  LET inked == {i \in 1..Len(t) : t[i] \notin {" ", "\n"}}
  IN IF inked = {} THEN <<>>
     ELSE SubSeq(t, CHOOSE i \in inked : \A j \in inked : i <= j,
                    CHOOSE i \in inked : \A j \in inked : i >= j)

\* String.prototype.lastIndexOf(ch, from): -1 when there is none
lastIndexOf(t, ch, from) ==
  LET at == {j \in 0..min(from, Len(t) - 1) : t[j + 1] = ch}
  IN IF at = {} THEN -1 ELSE CHOOSE j \in at : \A k \in at : j >= k

\* a token of the encoder is counted at position i: a run of letters or of
\* punctuation is one token, the space right before it included, and the
\* spaces left over are one token
startsToken(t, i) ==
  LET before == IF i = 1 THEN "" ELSE t[i - 1]
      after == IF i = Len(t) THEN "" ELSE t[i + 1]
  IN IF t[i] = " "
     THEN after \in {"", " "} /\ before # " "
     ELSE before # t[i]

\* tokenizer.ts, lines 7-9: encode(text).length
tokenLen(t) == Cardinality({i \in 1..Len(t) : startsToken(t, i)})

\* safeEmbed lines 22-24 with the last '.' of the whole text as the split point
splitPointLastDot(text) ==
  LET mid == Len(text) \div 2
  IN IF lastIndexOf(text, ".", Len(text)) > SentenceSplitMin
     THEN lastIndexOf(text, ".", Len(text)) + 1 ELSE mid

\* safeEmbed, lines 22-24
splitPoint(text) ==
  LET mid == Len(text) \div 2
  IN IF lastIndexOf(text, ".", mid) > SentenceSplitMin
     THEN lastIndexOf(text, ".", mid) + 1 ELSE mid

\* the embedding service of the claim's premise: it rejects a text, with the
\* context-length error, exactly when the text is over its limit
tooLong(text) == tokenLen(text) > EmbedCtx

\* safeEmbed(text) is called
SafeEmbedStart ==
  /\ emb.pc = "idle"
  /\ \E t \in textsUpTo(MaxEmbedLen) :
       emb' = [pc |-> "running", text |-> t, pending |-> <<t>>, answer |-> "none"]
  /\ UNCHANGED <<syncVars, tfidf, lastOp, qres, search, split, chk, sparse, norm, fmt, bat>>

\* pending without its i-th text, and with the texts added
answered(pending, i, added) ==
  SubSeq(pending, 1, i - 1) \o added \o SubSeq(pending, i + 1, Len(pending))

\* lines 10-33: one call of generateEmbeddings is answered; a rejected text
\* is cut in two and safeEmbed called on each half
SafeEmbedAnswer ==
  /\ emb.pc = "running"
  /\ \E i \in 1..Len(emb.pending) :
       LET text == emb.pending[i]
           left == trim(slice(text, 0, splitPoint(text)))
           right == trim(sliceFrom(text, splitPoint(text)))
           rest == IF tooLong(text)
                   THEN answered(emb.pending, i, <<left, right>>)
                   ELSE answered(emb.pending, i, <<>>)
       IN /\ Len(rest) <= Len(emb.text) + 1
          /\ emb' = [pc |-> IF rest = <<>> THEN "returned" ELSE "running",
                     text |-> emb.text, pending |-> rest,
                     answer |-> IF tooLong(text) THEN "contextLength" ELSE "ok"]
  /\ UNCHANGED <<syncVars, tfidf, lastOp, qres, search, split, chk, sparse, norm, fmt, bat>>

NextSafeEmbed ==
  \/ SafeEmbedStart
  \/ SafeEmbedAnswer

\* every awaited call is answered in the end
SpecSafeEmbed == Init /\ [][NextSafeEmbed]_vars /\ WF_vars(SafeEmbedAnswer)

\* the errors of the service other than the context-length error: a request
\* it finds invalid, a rate limit, a connection that fails
OtherErrors == {"invalidRequest", "rateLimit", "network"}

\* err?.status: 400 for both kinds of rejected request, none for a network error
statusOf(answer) ==
  IF answer \in {"contextLength", "invalidRequest"} THEN 400
  ELSE IF answer = "rateLimit" THEN 429 ELSE 0

\* lines 12-33: a call of generateEmbeddings fails with another error
SafeEmbedFault ==
  /\ emb.pc = "running"
  /\ \E i \in 1..Len(emb.pending), err \in OtherErrors :
       LET text == emb.pending[i]
           left == trim(slice(text, 0, splitPoint(text)))
           right == trim(sliceFrom(text, splitPoint(text)))
           rest == answered(emb.pending, i, <<left, right>>)
       IN IF statusOf(err) = 400
          THEN /\ Len(rest) <= Len(emb.text) + 1
               /\ emb' = [emb EXCEPT !.pending = rest, !.answer = err]
          ELSE emb' = [emb EXCEPT !.pc = "rejected", !.answer = err]
  /\ UNCHANGED <<syncVars, tfidf, lastOp, qres, search, split, chk, sparse, norm, fmt, bat>>

NextSafeEmbedAnyError ==
  \/ SafeEmbedStart
  \/ SafeEmbedAnswer
  \/ SafeEmbedFault

\* safeEmbed with a service that can fail in every way
SpecSafeEmbedAnyError == Init /\ [][NextSafeEmbedAnyError]_vars

\* splitToFit, lines 17-19
idx(chunk) ==
  LET mid == Len(chunk) \div 2
  IN IF lastIndexOf(chunk, ".", mid) > SentenceSplitMin
     THEN lastIndexOf(chunk, ".", mid) + 1 ELSE mid

\* splitToFit, lines 16-24: the while loop and the last push
RECURSIVE splitLoop(_, _, _)
splitLoop(chunk, ctx, parts) ==
  IF tokenLen(chunk) > ctx
  THEN splitLoop(trim(sliceFrom(chunk, idx(chunk))), ctx,
                 Append(parts, trim(slice(chunk, 0, idx(chunk)))))
  ELSE Append(parts, chunk)

\* tokenizer.ts, lines 12-25
splitToFit(text, ctx) ==
  IF tokenLen(text) <= ctx THEN <<text>> ELSE splitLoop(text, ctx, <<>>)

\* splitToFit(text, ctx) is called and returns
SplitCall ==
  /\ split.pc = "idle"
  /\ \E t \in textsUpTo(MaxTextLen), ctx \in 2..MaxCtx :
       split' = [pc |-> "done", text |-> t, ctx |-> ctx, parts |-> splitToFit(t, ctx)]
  /\ UNCHANGED <<syncVars, tfidf, lastOp, qres, search, emb, chk, sparse, norm, fmt, bat>>

NextSplit == SplitCall

SpecSplit == Init /\ [][NextSplit]_vars

(***************************************************************************)
(* The semantic chunker, chunker.ts, at the level of sentences and token   *)
(* counts.  A text is a sequence of items: sentences, and the blank line   *)
(* that join('\n\n') puts between two paragraphs, which is one token.  A   *)
(* sentence is terminated when it ends in one of . ! ?; only the last      *)
(* sentence of a paragraph can be unterminated.  Token counts are scaled:  *)
(* the limits keep their order minTokens <= maxTokens < SINGLE_LIMIT.      *)
(***************************************************************************)
MaxParas == 3          \* paragraphs of an input text
MaxMaxTokens == 3      \* maxTokens option, from 2
CTX_LIMIT == 5         \* 8192, scaled
SINGLE_LIMIT == CTX_LIMIT - 1
windowSize == 1

sentence(id, tok, term) == [id |-> id, tok |-> tok, term |-> term, whole |-> TRUE]
ParaBreak == [id |-> 0, tok |-> 1, term |-> FALSE, whole |-> TRUE]

\* the paragraphs an input is made of; p is the paragraph's position, and
\* the sentences of paragraph p are numbered 2p-1 and 2p
ParagraphsAt(p) ==
  { <<sentence(2 * p - 1, 1, TRUE)>>,
    <<sentence(2 * p - 1, 1, TRUE), sentence(2 * p, 1, TRUE)>>,
    <<sentence(2 * p - 1, 3, TRUE)>>,
    <<sentence(2 * p - 1, 3, FALSE)>>,
    <<sentence(2 * p - 1, 3, TRUE), sentence(2 * p, 1, FALSE)>>,
    <<sentence(2 * p - 1, 3, TRUE), sentence(2 * p, 3, TRUE)>>,
    <<sentence(2 * p - 1, 5, TRUE)>> }

\* lines 103-106: the non-empty paragraphs of the input text
RawParas ==
  UNION { {t \in [1..n -> UNION {ParagraphsAt(p) : p \in 1..n}] :
             \A p \in 1..n : t[p] \in ParagraphsAt(p)} : n \in 1..MaxParas }

\* lines 10-17
RECURSIVE tokLen(_)
tokLen(s) == IF s = <<>> THEN 0 ELSE Head(s).tok + tokLen(Tail(s))

\* lines 20-21: each terminated sentence, and of the text after the last
\* terminator only its last word, which \S+$ matches
lastWord(sent) == IF sent.tok = 1 THEN sent ELSE [sent EXCEPT !.tok = 1, !.whole = FALSE]
splitSentences(p) ==
  [k \in 1..Len(p) |-> IF p[k].term THEN <<p[k]>> ELSE <<lastWord(p[k])>>]

\* lines 198-200: the sentences pushed for a paragraph over maxTokens
keptSentences(para, maxTokens) ==
  SelectSeq(splitSentences(para), LAMBDA sent : tokLen(sent) <= maxTokens)

RECURSIVE reversed(_)
reversed(q) == IF q = <<>> THEN <<>> ELSE Append(reversed(Tail(q)), Head(q))

\* Array.prototype.join: the texts of list, sep between them
RECURSIVE join(_, _)
join(list, sep) ==
  IF list = <<>> THEN <<>>
  ELSE IF Len(list) = 1 THEN list[1]
  ELSE list[1] \o sep \o join(Tail(list), sep)

\* lines 111-130: the queue loop; it does not end when a piece over
\* SINGLE_LIMIT is its own only sentence
RECURSIVE mergeQueue(_, _, _)
mergeQueue(queue, paragraphs, maxTokens) ==
  IF queue = <<>> THEN [diverges |-> FALSE, paragraphs |-> paragraphs]
  ELSE LET p == Head(queue)
           candidate == paragraphs[Len(paragraphs)] \o <<ParaBreak>> \o p
       IN IF tokLen(p) > SINGLE_LIMIT
          THEN IF splitSentences(p) = <<p>>
               THEN [diverges |-> TRUE, paragraphs |-> paragraphs]
               ELSE mergeQueue(reversed(splitSentences(p)) \o Tail(queue), paragraphs, maxTokens)
          ELSE IF paragraphs = <<>>
          THEN mergeQueue(Tail(queue), <<p>>, maxTokens)
          ELSE IF tokLen(candidate) <= maxTokens /\ tokLen(candidate) <= SINGLE_LIMIT
          THEN mergeQueue(Tail(queue), [paragraphs EXCEPT ![Len(paragraphs)] = candidate], maxTokens)
          ELSE mergeQueue(Tail(queue), Append(paragraphs, p), maxTokens)

\* lines 136-158: the windows, position i counted from 0
window(paragraphs, i) ==
  [winIdx |-> i,
   curr |-> join(SubSeq(paragraphs, max(0, i - windowSize + 1) + 1, i + 1), <<>>),
   next |-> join(SubSeq(paragraphs, i + 2, min(i + 1 + windowSize, Len(paragraphs))), <<>>)]

slidingWindows(paragraphs, maxTokens) ==
  SelectSeq([k \in 1..max(0, Len(paragraphs) - windowSize) |-> window(paragraphs, k - 1)],
            LAMBDA w : ~(tokLen(w.curr) > maxTokens \/ tokLen(w.next) > maxTokens))

\* lines 182-188
flush(c) ==
  IF c.current # <<>>
  THEN [c EXCEPT !.chunks = Append(c.chunks, join(c.current, <<ParaBreak>>)),
                 !.current = <<>>, !.currentTok = 0]
  ELSE c

\* the last split-or-continue decision: the paragraph position it was taken
\* after and the winIdx of the window read, PastEnd when windows[wPtr] is
\* undefined
PastEnd == 0 - 1
NoDecision == [after |-> 0 - 1, winIdx |-> 0 - 1]
decisionAt(c) ==
  [after |-> c.i,
   winIdx |-> IF c.wPtr >= Len(c.windows) THEN PastEnd ELSE c.windows[c.wPtr + 1].winIdx]

\* the call is made: lines 103-163, up to the early return
ChunkStart ==
  /\ chk.pc = "idle"
  /\ \E text \in RawParas, maxTokens \in 2..MaxMaxTokens :
       \E minTokens \in 1..maxTokens :
         LET merged == mergeQueue(text, <<>>, maxTokens)
             windows == slidingWindows(merged.paragraphs, maxTokens)
             c == [pc |-> "embed", text |-> text, minTokens |-> minTokens,
                   maxTokens |-> maxTokens, paragraphs |-> merged.paragraphs,
                   windows |-> windows, chunks |-> <<>>, current |-> <<>>,
                   currentTok |-> 0, wPtr |-> 0, i |-> 0, decision |-> NoDecision]
         IN chk' = IF merged.diverges THEN [c EXCEPT !.pc = "diverges"]
                   ELSE IF Len(windows) = 0
                   THEN [c EXCEPT !.pc = "returned", !.chunks = merged.paragraphs]
                   ELSE c
  /\ UNCHANGED <<syncVars, tfidf, lastOp, qres, search, emb, split, sparse, norm, fmt, bat>>

\* lines 166-172: the window texts are embedded, or one embedding fails
ChunkEmbed ==
  /\ chk.pc = "embed"
  /\ \E ok \in BOOLEAN : chk' = [chk EXCEPT !.pc = IF ok THEN "walk" ELSE "rejected"]
  /\ UNCHANGED <<syncVars, tfidf, lastOp, qres, search, emb, split, sparse, norm, fmt, bat>>

\* lines 190-257: one iteration of the walk, for paragraphs[i]; similar is
\* the outcome of sim >= threshold
ChunkWalk ==
  /\ chk.pc = "walk"
  /\ chk.i < Len(chk.paragraphs)
  /\ \E similar \in BOOLEAN :
       LET para == chk.paragraphs[chk.i + 1]
           pTok == tokLen(para)
           isLast == chk.i = Len(chk.paragraphs) - 1
           stepped == [chk EXCEPT !.i = chk.i + 1]
           pushed == [stepped EXCEPT !.current = Append(chk.current, para),
                                     !.currentTok = chk.currentTok + pTok]
           nextParaTokens == tokLen(chk.windows[chk.wPtr + 1].next)
       IN chk' =
            IF pTok > chk.maxTokens
            THEN [flush(stepped) EXCEPT
                    !.chunks = flush(stepped).chunks \o keptSentences(para, chk.maxTokens)]
            ELSE IF pushed.currentTok < chk.minTokens /\ ~isLast THEN pushed
            ELSE IF pushed.currentTok > chk.maxTokens THEN flush(pushed)
            ELSE IF pushed.currentTok >= chk.minTokens /\ ~isLast
            THEN IF chk.wPtr >= Len(chk.windows)
                 THEN [pushed EXCEPT !.pc = "rejected", !.decision = decisionAt(chk)]
                 ELSE IF pushed.currentTok + nextParaTokens > chk.maxTokens
                 THEN [flush(pushed) EXCEPT !.wPtr = chk.wPtr + 1,
                                            !.decision = decisionAt(chk)]
                 ELSE IF similar
                 THEN [pushed EXCEPT !.wPtr = chk.wPtr + 1, !.decision = decisionAt(chk)]
                 ELSE [flush(pushed) EXCEPT !.wPtr = chk.wPtr + 1,
                                            !.decision = decisionAt(chk)]
            ELSE pushed
  /\ UNCHANGED <<syncVars, tfidf, lastOp, qres, search, emb, split, sparse, norm, fmt, bat>>

\* lines 258-259
ChunkReturn ==
  /\ chk.pc = "walk"
  /\ chk.i = Len(chk.paragraphs)
  /\ chk' = [flush(chk) EXCEPT !.pc = "returned"]
  /\ UNCHANGED <<syncVars, tfidf, lastOp, qres, search, emb, split, sparse, norm, fmt, bat>>

NextChunker ==
  \/ ChunkStart
  \/ ChunkEmbed
  \/ ChunkWalk
  \/ ChunkReturn

SpecChunker == Init /\ [][NextChunker]_vars

(***************************************************************************)
(* toSparseVector, sparse.ts.  A text is a word sequence; freq is an       *)
(* object with integer keys, which Object.entries lists by ascending key.  *)
(***************************************************************************)
MaxSparseWords == 4    \* words of a text given to toSparseVector
MaxTerms == 3          \* maxTerms argument, from 1

SparseWords == {"the", "alpha", "beta", "gamma"}
SparseTexts == UNION {[1..n -> SparseWords] : n \in 0..MaxSparseWords}

\* lines 43-45: the first 32 bits of the MD5 digest; "alpha" and "gamma"
\* stand for two tokens whose digests start alike
hash(token) == IF token = "beta" THEN 3 ELSE 7

\* String.prototype.split(/\s+/): the empty string gives one empty token
splitWords(text) == IF text = <<>> THEN <<"">> ELSE text

\* lines 16-23
tokenFreq(text) ==
  LET toks == SelectSeq(splitWords(stripStops(text)), LAMBDA tok : tok # "")
      ids == {hash(toks[i]) : i \in 1..Len(toks)}
  IN [id \in ids |-> Cardinality({i \in 1..Len(toks) : hash(toks[i]) = id})]

\* Object.entries(freq).map(...): the keys in ascending order
RECURSIVE entries(_)
entries(freq) ==
  IF DOMAIN freq = {} THEN <<>>
  ELSE LET id == CHOOSE k \in DOMAIN freq : \A j \in DOMAIN freq : k <= j
       IN <<[id |-> id, count |-> freq[id]]>> \o
          entries([k \in DOMAIN freq \ {id} |-> freq[k]])

\* sort((a, b) => a.count - b.count): ascending
RECURSIVE sortByCountAscending(_)
sortByCountAscending(s) ==
  IF s = <<>> THEN <<>>
  ELSE LET rest == sortByCountAscending(SubSeq(s, 1, Len(s) - 1))
           e == s[Len(s)]
           before == {i \in 1..Len(rest) : rest[i].count > e.count}
           k == IF before = {} THEN Len(rest) + 1
                ELSE CHOOSE i \in before : \A j \in before : i <= j
       IN SubSeq(rest, 1, k - 1) \o <<e>> \o SubSeq(rest, k, Len(rest))

\* line 28, sort((a, b) => b.count - a.count): stable, descending
RECURSIVE sortByCount(_)
sortByCount(s) ==
  IF s = <<>> THEN <<>>
  ELSE LET rest == sortByCount(SubSeq(s, 1, Len(s) - 1))
           e == s[Len(s)]
           before == {i \in 1..Len(rest) : rest[i].count < e.count}
           k == IF before = {} THEN Len(rest) + 1
                ELSE CHOOSE i \in before : \A j \in before : i <= j
       IN SubSeq(rest, 1, k - 1) \o <<e>> \o SubSeq(rest, k, Len(rest))

\* lines 12-36
toSparseVector(text, maxTerms) ==
  LET sorted == sortByCount(entries(tokenFreq(text)))
      top == SubSeq(sorted, 1, min(maxTerms, Len(sorted)))
  IN [indices |-> [i \in 1..Len(top) |-> top[i].id],
      values |-> [i \in 1..Len(top) |-> top[i].count]]

\* toSparseVector(text, maxTerms) is called and returns
SparseCall ==
  /\ sparse.pc = "idle"
  /\ \E text \in SparseTexts, maxTerms \in 1..MaxTerms :
       sparse' = [pc |-> "done", text |-> text, maxTerms |-> maxTerms,
                  indices |-> toSparseVector(text, maxTerms).indices,
                  values |-> toSparseVector(text, maxTerms).values]
  /\ UNCHANGED <<syncVars, tfidf, lastOp, qres, search, emb, split, chk, norm, fmt, bat>>

NextSparse == SparseCall

SpecSparse == Init /\ [][NextSparse]_vars

(***************************************************************************)
(* extractTextFromHtml, readwiseSync.ts lines 120-149, on symbol           *)
(* sequences: a symbol is a character, an entity, or a whole <p> or <br>   *)
(* tag.  "a" stands for a letter.                                          *)
(***************************************************************************)
MaxHtmlLen == 4        \* symbols of an HTML input

HtmlSymbols == {"a", " ", "\n", "<", ">", "&lt;", "&gt;", "<p>", "<br>"}
HtmlInputs == UNION {[1..n -> HtmlSymbols] : n \in 0..MaxHtmlLen}

\* the symbols of t at the positions in keep, in order
pick(t, keep) ==
  LET f[i \in 0..Len(t)] ==
        IF i = 0 THEN <<>>
        ELSE IF i \in keep THEN Append(f[i - 1], t[i]) ELSE f[i - 1]
  IN f[Len(t)]

\* lines 124-127: <br> becomes a newline, an opening block tag a blank line
RECURSIVE replaceBlockTags(_)
replaceBlockTags(t) ==
  IF t = <<>> THEN <<>>
  ELSE (IF Head(t) = "<br>" THEN <<"\n">>
        ELSE IF Head(t) = "<p>" THEN <<"\n", "\n">>
        ELSE <<Head(t)>>) \o replaceBlockTags(Tail(t))

\* line 130, replace(/<[^>]+>/g, ''): a tag is a '<', at least one symbol
\* other than '>', and the first '>' after them
RECURSIVE stripTags(_)
stripTags(t) ==
  IF t = <<>> THEN <<>>
  ELSE LET closing == {j \in 3..Len(t) : t[j] = ">"}
           j == CHOOSE k \in closing : \A l \in closing : k <= l
       IN IF t[1] = "<" /\ Len(t) >= 2 /\ t[2] # ">" /\ closing # {}
          THEN stripTags(SubSeq(t, j + 1, Len(t)))
          ELSE <<t[1]>> \o stripTags(Tail(t))

\* lines 133-139
decodeEntities(t) ==
  [i \in 1..Len(t) |-> IF t[i] = "&lt;" THEN "<"
                       ELSE IF t[i] = "&gt;" THEN ">" ELSE t[i]]

\* line 144, replace(/[ \t]+(?=\n)/g, '')
trimLineEnds(t) ==
  pick(t, {i \in 1..Len(t) :
             ~(t[i] = " " /\ \E j \in i + 1..Len(t) :
                               t[j] = "\n" /\ \A k \in i..j - 1 : t[k] = " ")})

\* line 145, replace(/[ \t]{2,}/g, ' ')
collapseSpaces(t) ==
  pick(t, {i \in 1..Len(t) : ~(t[i] = " " /\ i > 1 /\ t[i - 1] = " ")})

\* line 146, replace(/\n{3,}/g, '\n\n')
collapseNewlines(t) ==
  pick(t, {i \in 1..Len(t) :
             ~(t[i] = "\n" /\ i > 2 /\ t[i - 1] = "\n" /\ t[i - 2] = "\n")})

\* lines 120-149
extractTextFromHtmlSymbols(html) ==
  trim(collapseNewlines(collapseSpaces(trimLineEnds(
    decodeEntities(stripTags(replaceBlockTags(html)))))))

\* the normalizer is applied to an input and to its own output
NormalizeTwice ==
  /\ norm.pc = "idle"
  /\ \E html \in HtmlInputs :
       norm' = [pc |-> "done", html |-> html,
                once |-> extractTextFromHtmlSymbols(html),
                twice |-> extractTextFromHtmlSymbols(extractTextFromHtmlSymbols(html))]
  /\ UNCHANGED <<syncVars, tfidf, lastOp, qres, search, emb, split, chk, sparse, fmt, bat>>

NextHtml == NormalizeTwice

SpecHtml == Init /\ [][NextHtml]_vars

(***************************************************************************)
(* formatReadwiseContext, readwise-search.ts lines 329-372.  An excerpt    *)
(* text is a character sequence, drawn as a sequence of pieces (a letter,  *)
(* a space, a blank line, a fence, a backtick, a '#'); a title is one      *)
(* symbol and "tick" is the backtick.  The <pre> replacements of lines    *)
(* 348-350 have nothing to act on in these texts.                          *)
(***************************************************************************)
MaxPieces == 5         \* pieces of an excerpt text
MaxMatches == 3        \* matches given to formatReadwiseContext

Fence == <<"tick", "tick", "tick">>
BlankLine == <<"\n", "\n">>
Pieces == {<<"a">>, <<" ">>, BlankLine, Fence, <<"tick">>, <<"#">>}

RECURSIVE concat(_)
concat(list) == IF list = <<>> THEN <<>> ELSE Head(list) \o concat(Tail(list))

ExcerptTexts == {concat(ps) : ps \in UNION {[1..n -> Pieces] : n \in 0..MaxPieces}}

fenceAt(t, i) == i + 2 <= Len(t) /\ SubSeq(t, i, i + 2) = Fence

\* line 343: a blank line is put before every fence
RECURSIVE breakBeforeFences(_)
breakBeforeFences(t) ==
  IF t = <<>> THEN <<>>
  ELSE IF fenceAt(t, 1) THEN BlankLine \o Fence \o breakBeforeFences(SubSeq(t, 4, Len(t)))
  ELSE <<Head(t)>> \o breakBeforeFences(Tail(t))

\* line 344: the first fence followed by a word gets a blank line before it
\* and a newline after the word
breakAroundLanguage(t) ==
  LET at == {i \in 1..Len(t) : fenceAt(t, i) /\ i + 3 <= Len(t) /\ t[i + 3] = "a"}
      i == CHOOSE k \in at : \A l \in at : k <= l
      ends == {e \in i + 3..Len(t) : (\A k \in i + 3..e : t[k] = "a")
                                      /\ (e = Len(t) \/ t[e + 1] # "a")}
      e == CHOOSE k \in ends : TRUE
  IN IF at = {} THEN t
     ELSE SubSeq(t, 1, i - 1) \o BlankLine \o SubSeq(t, i, e) \o <<"\n">>
          \o SubSeq(t, e + 1, Len(t))

\* line 345: a fence at the end of the text gets a newline before it and a
\* blank line after it
breakAroundLastFence(t) ==
  IF Len(t) >= 3 /\ fenceAt(t, Len(t) - 2)
  THEN SubSeq(t, 1, Len(t) - 3) \o <<"\n">> \o Fence \o BlankLine
  ELSE t

\* line 347: every backtick, one or more other characters and the next
\* backtick get a space before and after
RECURSIVE padInlineCode(_)
padInlineCode(t) ==
  IF t = <<>> THEN <<>>
  ELSE LET closing == {j \in 3..Len(t) : t[j] = "tick"}
           j == CHOOSE k \in closing : \A l \in closing : k <= l
       IN IF t[1] = "tick" /\ Len(t) >= 2 /\ t[2] # "tick" /\ closing # {}
          THEN <<" ">> \o SubSeq(t, 1, j) \o <<" ">> \o padInlineCode(SubSeq(t, j + 1, Len(t)))
          ELSE <<t[1]>> \o padInlineCode(Tail(t))

isSpace(c) == c \in {" ", "\n"}

\* line 352: every run of '#' followed by white space gets a blank line
\* before it
RECURSIVE breakBeforeHeadings(_)
breakBeforeHeadings(t) ==
  IF t = <<>> THEN <<>>
  ELSE LET hashes == CHOOSE k \in 0..Len(t) :
                       /\ \A l \in 1..k : t[l] = "#"
                       /\ (k = Len(t) \/ t[k + 1] # "#")
           spaces == CHOOSE w \in hashes..Len(t) :
                       /\ \A l \in hashes + 1..w : isSpace(t[l])
                       /\ (w = Len(t) \/ ~isSpace(t[w + 1]))
       IN IF hashes >= 1 /\ spaces > hashes
          THEN BlankLine \o SubSeq(t, 1, spaces) \o breakBeforeHeadings(SubSeq(t, spaces + 1, Len(t)))
          ELSE <<t[1]>> \o breakBeforeHeadings(Tail(t))

\* lines 341-352
processedText(text) ==
  breakBeforeHeadings(padInlineCode(breakAroundLastFence(
    breakAroundLanguage(breakBeforeFences(text)))))

Titles == {"T1", "T2"}
ReadwiseMatches ==
  UNION {[1..n -> [title : Titles, text : {<<"a">>, <<"#", " ", "a">>}]] : n \in 0..MaxMatches}

\* line 362 without the Set
keepAll(list) == list

\* line 362, [...new Set(titles)]: each title once, in order of first appearance
RECURSIVE unique(_)
unique(list) ==
  IF list = <<>> THEN <<>>
  ELSE LET init == unique(SubSeq(list, 1, Len(list) - 1))
           last == list[Len(list)]
       IN IF \E i \in 1..Len(init) : init[i] = last THEN init ELSE Append(init, last)

\* a block of the context: an excerpt, the sources heading or a source line
block(kind, title, text) == [kind |-> kind, title |-> title, text |-> text]

\* lines 334-371: the context as the list of its blocks, the excerpts of
\* line 359 first and the sources block of lines 365-367 after them
formatReadwiseContext(matches) ==
  IF Len(matches) = 0 THEN [readwiseContext |-> <<>>, hasSources |-> FALSE]
  ELSE LET excerpts == [i \in 1..Len(matches) |->
                          block("excerpt", matches[i].title, processedText(matches[i].text))]
           sources == unique([i \in 1..Len(matches) |-> matches[i].title])
           sourcesBlock ==
             IF Len(sources) > 0
             THEN <<block("sourcesHeading", "", <<>>)>> \o
                  [i \in 1..Len(sources) |-> block("source", sources[i], <<>>)]
             ELSE <<>>
       IN [readwiseContext |-> excerpts \o sourcesBlock, hasSources |-> Len(sources) > 0]

\* the repair of lines 341-352 is applied to one excerpt text
RepairText ==
  /\ fmt.pc = "idle"
  /\ \E text \in ExcerptTexts :
       fmt' = [pc |-> "repaired", text |-> text, processedText |-> processedText(text)]
  /\ UNCHANGED <<syncVars, tfidf, lastOp, qres, search, emb, split, chk, sparse, norm, bat>>

\* formatReadwiseContext(matches) is called and returns
FormatCall ==
  /\ fmt.pc = "idle"
  /\ \E matches \in ReadwiseMatches :
       fmt' = [pc |-> "done", matches |-> matches, result |-> formatReadwiseContext(matches)]
  /\ UNCHANGED <<syncVars, tfidf, lastOp, qres, search, emb, split, chk, sparse, norm, bat>>

NextFormat ==
  \/ RepairText
  \/ FormatCall

SpecFormat == Init /\ [][NextFormat]_vars

(***************************************************************************)
(* generateEmbeddingsBatch, embeddings.ts lines 47-93.  A text is its      *)
(* position in the input and its token count; the vector of a text is      *)
(* named by the text's position.                                           *)
(***************************************************************************)
MaxBatchTexts == 3     \* texts given to generateEmbeddingsBatch
limit == 3             \* tokens of a batch (8192 - 32, scaled)

BatchTokens == {1, 2, limit + 1}
BatchInputs ==
  UNION {{[i \in 1..n |-> [id |-> i, toks |-> toks[i]]] : toks \in [1..n -> BatchTokens]}
           : n \in 0..MaxBatchTexts}

vectorsOf(texts) == [i \in 1..Len(texts) |-> texts[i].id]

\* lines 55-77, when no call fails with an error other than the context
\* length: the vectors of the batch are added in the order of the batch,
\* by one call or by safeEmbed on each text
flushBatch(b) ==
  IF b.batch = <<>> THEN b
  ELSE [b EXCEPT !.result = b.result \o vectorsOf(b.batch), !.batch = <<>>, !.tokSum = 0]

\* generateEmbeddingsBatch(texts) is called
BatchStart ==
  /\ bat.pc = "idle"
  /\ \E texts \in BatchInputs :
       bat' = [pc |-> "loop", texts |-> texts, k |-> 0, batch |-> <<>>, tokSum |-> 0,
               result |-> <<>>]
  /\ UNCHANGED <<syncVars, tfidf, lastOp, qres, search, emb, split, chk, sparse, norm, fmt>>

\* lines 80-90: one iteration of the loop, for texts[k]; rejected when an
\* embedding call fails with another error
BatchStep ==
  /\ bat.pc = "loop"
  /\ bat.k < Len(bat.texts)
  /\ \E fails \in BOOLEAN :
       LET t == bat.texts[bat.k + 1]
           stepped == [bat EXCEPT !.k = bat.k + 1]
           flushed == IF bat.tokSum + t.toks > limit THEN flushBatch(stepped) ELSE stepped
           calls == t.toks > limit \/ (bat.tokSum + t.toks > limit /\ bat.batch # <<>>)
       IN /\ fails => calls
          /\ bat' =
               IF fails THEN [stepped EXCEPT !.pc = "rejected"]
               ELSE IF t.toks > limit
               THEN [stepped EXCEPT !.result = Append(bat.result, t.id)]
               ELSE [flushed EXCEPT !.batch = Append(flushed.batch, t),
                                    !.tokSum = flushed.tokSum + t.toks]
  /\ UNCHANGED <<syncVars, tfidf, lastOp, qres, search, emb, split, chk, sparse, norm, fmt>>

\* lines 91-92: the last flush and the return
BatchReturn ==
  /\ bat.pc = "loop"
  /\ bat.k = Len(bat.texts)
  /\ \E fails \in BOOLEAN :
       /\ fails => bat.batch # <<>>
       /\ bat' = IF fails THEN [bat EXCEPT !.pc = "rejected"]
                 ELSE [flushBatch(bat) EXCEPT !.pc = "returned"]
  /\ UNCHANGED <<syncVars, tfidf, lastOp, qres, search, emb, split, chk, sparse, norm, fmt>>

NextBatch ==
  \/ BatchStart
  \/ BatchStep
  \/ BatchReturn

SpecBatch == Init /\ [][NextBatch]_vars

(***************************************************************************)
(* Properties of the sync pipeline and of the TF-IDF model.                *)
(***************************************************************************)
processing == {"doc", "chunk", "embed", "upsertHeader", "upsertChunk"}

\* the run has left paging: phase 1 has appended its build to tfLog
pagingDone == tfLog # <<>>

idsOf(docs) == {docs[i].id : i \in 1..Len(docs)}

\* C1: whenever the store holds a chunk record of a document it also holds
\* that document's header record, and the chunk ids of the document in the
\* store are exactly 0..k-1 for some k.
C1_HeaderAndContiguousChunks ==
  \A d \in DocIds :
    LET ids == chunkIdsOf(store, d)
    IN /\ ids # {} => hasHeader(store, d)
       /\ ids = 0..(Cardinality(ids) - 1)

\* a second run that stopped right after rewriting the header, over the two
\* chunks an earlier run left in the store
C1_Witness ==
  /\ runNo = 2
  /\ outcome = "failed"
  /\ chunkIdsOf(store, "d1") = {0, 1}
  /\ hasHeader(store, "d1")
  /\ writtenThisRun = {headerId("d1")}

\* C2: the upserts of one document are issued one at a time, the header
\* first and then chunk 0, 1, ..., n-1 in that order, and no chunk upsert is
\* issued before the header upsert has completed.
C2_HeaderThenChunksInOrder ==
  /\ upsertLog # <<>> =>
       LET d == upsertLog[1].doc
       IN /\ upsertLog[1] = headerId(d)
          /\ \A j \in 2..Len(upsertLog) : upsertLog[j] = chunkId(d, j - 2)
          /\ Len(upsertLog) <= Len(chunks) + 1
  /\ pc = "upsertChunk" =>
       /\ upsertLog # <<>>
       /\ upsertLog[1] = headerId(allDocuments[docIdx].id)
       /\ hasHeader(store, allDocuments[docIdx].id)
       /\ upIdx = Len(upsertLog) - 1

\* the header and both chunks of a document have been upserted
C2_Witness ==
  /\ upsertLog = <<headerId("d1"), chunkId("d1", 0), chunkId("d1", 1)>>
  /\ outcome = "done"

\* C3: after a forced run has processed a document that was already in the
\* store, the records of that document in the store are exactly the ones
\* that run wrote.
C3_ReprocessingReplacesExactly ==
  (pc = "idle" /\ outcome = "done" /\ forceUpdate) =>
    \A i \in 1..Len(disp) :
      LET d == allDocuments[i].id
      IN (disp[i] = "processed" /\ recordsOf(storeAtStart, d) # {}) =>
           {r.id : r \in recordsOf(store, d)} =
             {id \in writtenThisRun : id.doc = d}

\* C4 as stated: a non-forced run after a completed non-forced run that
\* read the same documents embeds nothing, upserts nothing and leaves the
\* store as it found it.
C4_SecondRunIsNoOp ==
  (/\ runNo >= 2
   /\ ~forceUpdate /\ ~prev.force /\ prev.outcome = "done"
   /\ pagingDone /\ allDocuments = prev.docs) =>
    (~embedIssued /\ ~upsertIssued /\ store = storeAtStart)

\* C4 amended: the same, for a second run whose enumeration of the existing
\* ids returned without error.
C4_SecondRunIsNoOpWhenEnumerated ==
  (/\ runNo >= 2
   /\ ~forceUpdate /\ ~prev.force /\ prev.outcome = "done"
   /\ pagingDone /\ allDocuments = prev.docs
   /\ enumErr = "none") =>
    (~embedIssued /\ ~upsertIssued /\ store = storeAtStart)

\* the second run has completed over a document with a body that the first
\* run stored, its enumeration answered by the query
C4_Witness ==
  /\ runNo = 2 /\ pc = "idle" /\ outcome = "done"
  /\ ~forceUpdate /\ ~prev.force /\ prev.outcome = "done"
  /\ allDocuments = prev.docs
  /\ enumDone /\ enumErr = "none"
  /\ disp = <<"existing">>
  /\ chunkIdsOf(store, "d1") # {}

\* the run that follows the one in which a document was left half written
afterPartial ==
  /\ partial.id # None
  /\ runNo = partial.run + 1
  /\ pc \notin {"stats", "query"}

C6_NotBuiltExactlyWhenStale ==
  qres.op # None =>
    /\ (qres.res = NotBuilt) <=> (lastOp # "build")
    /\ qres.res.ok <=> (lastOp = "build")
    /\ tfidf = qres.model

\* a query fails on a model that was built once and then added to
C6_Witness ==
  /\ qres.op = "getTopTerms"
  /\ qres.res = NotBuilt
  /\ lastOp = "add"
  /\ tfidf.documentFrequency # <<>>

isAdd(x) == x = "add"
isBuild(x) == x = "build"
isTop(x) == x \in {"top", "topNotBuilt"}

\* C7: within one call of processDocuments, build runs exactly once, after
\* the last addDocument of phase 1 and before the first getTopTerms of
\* phase 2, and no getTopTerms of phase 2 fails with NotBuilt.
C7_BuildOnceBetweenPhases ==
  /\ Len(SelectSeq(tfLog, isBuild)) <= 1
  /\ \A i, j \in 1..Len(tfLog) :
       /\ (isAdd(tfLog[i]) /\ isBuild(tfLog[j])) => i < j
       /\ (isBuild(tfLog[i]) /\ isTop(tfLog[j])) => i < j
  /\ \A i \in 1..Len(tfLog) : tfLog[i] # "topNotBuilt"
  /\ (pc \in processing \/ outcome = "done") =>
       /\ Len(SelectSeq(tfLog, isBuild)) = 1
       /\ tfidf.built

\* two documents were added, the model built, and both were queried
C7_Witness ==
  /\ tfLog = <<"add", "add", "build", "top", "top">>
  /\ outcome = "done"

\* C8: a 429 response makes the pager wait and then repeat the request for
\* the same location and cursor, with nothing collected from it; any other
\* non-2xx response makes the sync fail.
C8_RateLimitRetriesSameRequest ==
  [][ /\ (pc = "fetch" /\ lastStatus' = 429) =>
           /\ pc' = "wait"
           /\ outcome' = outcome
           /\ <<locIdx', cursor'>> = <<locIdx, cursor>>
           /\ <<allDocuments', processedDocIds'>> = <<allDocuments, processedDocIds>>
      /\ pc = "wait" =>
           /\ pc' = "fetch"
           /\ locIdx' = lastReq.loc /\ cursor' = lastReq.cursor
           /\ <<allDocuments', processedDocIds'>> = <<allDocuments, processedDocIds>>
      /\ (pc = "fetch" /\ ~isOk(lastStatus') /\ lastStatus' \notin {0, 429}) =>
           /\ pc' = "idle"
           /\ outcome' = "failed"
    ]_vars

\* the pager waits after a 429 on the second page of a later location, with
\* documents already collected
C8_Witness ==
  /\ pc = "wait"
  /\ lastStatus = 429
  /\ lastReq = [loc |-> 2, cursor |-> 1]
  /\ allDocuments # <<>>

\* C9: allDocuments holds each document id at most once, and the entry for
\* an id is the first document with that id the pager received.
C9_FirstOccurrenceKept ==
  /\ \A i, j \in 1..Len(allDocuments) :
       allDocuments[i].id = allDocuments[j].id => i = j
  /\ \A i \in 1..Len(allDocuments) :
       firstRecv[allDocuments[i].id] = <<allDocuments[i]>>
  /\ idsOf(allDocuments) = {d \in DocIds : firstRecv[d] # <<>>}
  /\ processedDocIds = idsOf(allDocuments)

\* both ids were collected and a later copy with other content was dropped
C9_Witness ==
  /\ dupDiffers
  /\ Len(allDocuments) = 2
  /\ pagingDone

\* a step of the enumeration, whether it returns or throws
enumerationStep ==
  pc \in {"stats", "query"} =>
    /\ pc' \in {"query", "fetch"}
    /\ outcome' = "none"
    /\ enumErr' # "none" => (pc' = "fetch" /\ existingDocIds' = {})

\* after a failed enumeration no id is known and no document is skipped as
\* existing
nothingKnownAfterError ==
  enumErr # "none" =>
    /\ existingDocIds = {}
    /\ \A i \in 1..Len(disp) :
         disp[i] = IF bodyText(allDocuments[i]) = <<>>
                   THEN "nobody" ELSE "processed"

\* C10: an error of describeIndexStats or of the zero-vector query does not
\* fail the sync; the run goes on to paging with an empty existing-id set,
\* so that every document with a body is processed.
C10_EnumerationErrorIsEmptySet ==
  [][enumerationStep]_vars /\ []nothingKnownAfterError

\* the query failed over a store that held the document, and the run
\* completed having processed it again
C10_Witness ==
  /\ enumErr = "query"
  /\ pc = "idle" /\ outcome = "done"
  /\ hasHeader(storeAtStart, "d1")
  /\ disp = <<"processed">>

\* C16: during sync a context-length rejection by the embedding service,
\* for a header text, a chunk text or a chunker window, is absorbed by
\* bisection and never makes the sync fail.
C16_ContextOverflowAbsorbed ==
  embedErr = "contextLength" => outcome # "failed"

(***************************************************************************)
(* Properties of the retrieval path.                                       *)
(***************************************************************************)
searchDone == search.pc = "done"

\* the chunk-pass matches whose score is at or above minScore, in the order
\* the store returned them
atOrAbove(matches, minScore) ==
  SelectSeq(matches, LAMBDA m : m.hasScore /\ m.score >= minScore)

\* C11: hybridSearch returns exactly the first topK, in the store's order, of
\* the chunk-pass matches whose score is at or above min_score; so every
\* result has a score at or above min_score and a doc_id of the candidate
\* set, the results are distinct records, and there are at most topK.
C11_FirstTopKAtOrAboveMinScore ==
  (searchDone /\ search.chunk = "answered") =>
    LET kept == atOrAbove(search.chunkMatches, search.minScore)
        first == SubSeq(kept, 1, min(search.topK, Len(kept)))
        res == search.result.val
    IN /\ search.result.ok
       /\ res = [i \in 1..Len(first) |-> toResult(first[i])]
       /\ Len(res) <= search.topK
       /\ \A i \in 1..Len(res) :
            /\ res[i].score >= search.minScore
            /\ \E k \in 1..Len(search.docIds) : search.docIds[k] = res[i].docId
       /\ \A i, j \in 1..Len(res) : res[i].text = res[j].text => i = j

\* C12: when the header pass yields no candidate doc_id, hybridSearch
\* returns the empty list as a normal result and issues no chunk query.
C12_NoCandidatesReturnsEmpty ==
  /\ (searchDone /\ search.header = "noHit") =>
       /\ search.result = [ok |-> TRUE, val |-> <<>>]
       /\ search.queries = <<"header">>
       /\ search.chunk = "none"
  /\ search.pc = "chunk" => (search.header = "hit" /\ search.docIds # <<>>)

\* the header query was answered by a header under the threshold and one
\* without doc_id
C12_Witness ==
  /\ searchDone
  /\ search.header = "noHit"
  /\ search.result = [ok |-> TRUE, val |-> <<>>]
  /\ search.topK = 2

\* C13 as stated: every hybridSearch invocation issues exactly two
\* vector-store queries, the header query and then the chunk query.
C13_ExactlyTwoQueries ==
  searchDone => search.queries = <<"header", "chunk">>

\* C13 amended: an invocation issues at most two vector-store queries, the
\* header query first; the chunk query is issued only after the header query
\* has returned with a candidate, and then it is always issued.
C13_HeaderThenChunkIfCandidates ==
  (search.pc \in {"chunk", "done"}) =>
    /\ search.queries \in {<<>>, <<"header">>, <<"header", "chunk">>}
    /\ Len(search.queries) = 2 => (search.header = "hit" /\ search.docIds # <<>>)
    /\ (searchDone /\ search.header = "hit") =>
         search.queries = <<"header", "chunk">>
    /\ (searchDone /\ search.header \in {"noHit", "error"}) =>
         search.queries = <<"header">>
    /\ (searchDone /\ search.header = "none") => search.queries = <<>>

\* both queries were issued and results returned
C13_Witness ==
  /\ searchDone
  /\ search.queries = <<"header", "chunk">>
  /\ search.result.ok
  /\ Len(search.result.val) = 2

\* the completion is a well-formed object with a non-empty Optimized Query
rewriteSucceeds(r) ==
  /\ ~r.throws /\ r.block /\ r.parses
  /\ r.optimized = "text" /\ r.joinable

\* C14: whenever the rewrite fails (the LLM call throws, the completion has
\* no brace-delimited object, the object does not parse, or the Optimized
\* Query is missing or empty) generateEnhancedQuery returns the raw query,
\* and hybridSearch goes on with it.
C14_RewriteFailureKeepsRawQuery ==
  /\ search.pc = "embed" =>
       /\ ~rewriteSucceeds(search.llm) =>
            search.cleanedQuery = stripStops(search.query)
       /\ rewriteSucceeds(search.llm) =>
            search.cleanedQuery = stripStops(enhancedQueryText(search.query))
  /\ search.pc \in {"header", "chunk", "done"} =>
       search.cleanedQuery \in {stripStops(search.query),
                                stripStops(enhancedQueryText(search.query))}

\* the object did not parse and the search goes on with the raw query
C14_Witness ==
  /\ search.pc = "embed"
  /\ search.llm.block /\ ~search.llm.parses
  /\ search.cleanedQuery = stripStops(search.query)

\* C15: an error of the vector store in the header query or in the chunk
\* query reaches the caller of hybridSearch as an error with the original
\* message, never as an empty result list.
C15_StoreErrorPropagates ==
  (searchDone /\ (search.header = "error" \/ search.chunk = "error")) =>
    /\ ~search.result.ok
    /\ search.result.val = VectorStoreMessage

\* the chunk query failed after the header query had found candidates
C15_Witness ==
  /\ searchDone
  /\ search.chunk = "error"
  /\ search.header = "hit"
  /\ ~search.result.ok

(***************************************************************************)
(* Properties of safeEmbed, under SpecSafeEmbed.                           *)
(***************************************************************************)
\* C17: for every input text, a call of safeEmbed eventually returns a
\* vector, the service rejecting exactly the texts over its context limit.
C17_SafeEmbedReturns ==
  (emb.pc = "running") ~> (emb.pc = "returned")

\* a call that was rejected and cut in halves has returned
C17_Witness ==
  /\ emb.pc = "returned"
  /\ tooLong(emb.text)

(***************************************************************************)
(* Properties of splitToFit, under SpecSplit.                              *)
(***************************************************************************)
\* C18: for every text and every ctx >= 2, every element of
\* splitToFit(text, ctx) has tokenLen <= ctx, and the result is the text
\* alone when the text fits.
C18_EveryPartFits ==
  split.pc = "done" =>
    /\ \A i \in 1..Len(split.parts) : tokenLen(split.parts[i]) <= split.ctx
    /\ tokenLen(split.text) <= split.ctx => split.parts = <<split.text>>

(***************************************************************************)
(* Properties of semanticChunksWithOverlap, under SpecChunker.             *)
(***************************************************************************)
\* C19: every chunk returned has tokenLen <= maxTokens or is a single
\* sentence, and no returned chunk is empty.
C19_ChunksWithinMaxOrOneSentence ==
  chk.pc = "returned" =>
    \A n \in 1..Len(chk.chunks) :
      /\ tokLen(chk.chunks[n]) <= chk.maxTokens \/ Len(chk.chunks[n]) = 1
      /\ chk.chunks[n] # <<>>

\* C20: every sentence of an input paragraph that is over maxTokens is
\* one of the returned chunks.
C20_EverySentenceEmitted ==
  chk.pc = "returned" =>
    \A p \in 1..Len(chk.text) :
      tokLen(chk.text[p]) > chk.maxTokens =>
        \A k \in 1..Len(chk.text[p]) :
          \E n \in 1..Len(chk.chunks) : chk.chunks[n] = <<chk.text[p][k]>>

(***************************************************************************)
(* Properties of toSparseVector, under SpecSparse.                         *)
(***************************************************************************)
\* C21: the two arrays have the same length, at most maxTerms; the indices
\* are pairwise distinct; the values are strictly positive and in
\* non-increasing order; a text with no token left after stop-word
\* stripping gives two empty arrays.
C21_SparseVectorShape ==
  sparse.pc = "done" =>
    /\ Len(sparse.indices) = Len(sparse.values)
    /\ Len(sparse.indices) <= sparse.maxTerms
    /\ \A i, j \in 1..Len(sparse.indices) :
         i # j => sparse.indices[i] # sparse.indices[j]
    /\ \A i \in 1..Len(sparse.values) : sparse.values[i] >= 1
    /\ \A i \in 1..Len(sparse.values) - 1 : sparse.values[i] >= sparse.values[i + 1]
    /\ stripStops(sparse.text) = <<>> =>
         sparse.indices = <<>> /\ sparse.values = <<>>

\* two terms of different counts are returned, the more frequent one having
\* the larger key
C21_Witness ==
  /\ sparse.pc = "done"
  /\ Len(sparse.indices) = 2
  /\ sparse.values[1] > sparse.values[2]
  /\ sparse.indices[1] > sparse.indices[2]

(***************************************************************************)
(* Properties of extractTextFromHtml, under SpecHtml.                      *)
(***************************************************************************)
threeNewlines(t) ==
  \E i \in 1..Len(t) - 2 : t[i] = "\n" /\ t[i + 1] = "\n" /\ t[i + 2] = "\n"

\* C22: applying extractTextFromHtml to its own output gives the same text
\* as applying it once, and no output has three consecutive newlines.
C22_NormalizerIdempotent ==
  norm.pc = "done" =>
    /\ norm.twice = norm.once
    /\ ~threeNewlines(norm.once)

(***************************************************************************)
(* Properties of formatReadwiseContext, under SpecFormat.                  *)
(***************************************************************************)
blankLineBefore(t, i) == i >= 3 /\ t[i - 1] = "\n" /\ t[i - 2] = "\n"
blankLineAfter(t, i) == i + 2 <= Len(t) /\ t[i + 1] = "\n" /\ t[i + 2] = "\n"

\* the backticks that are not part of a longer run
inlineTicks(t) ==
  {i \in 1..Len(t) : /\ t[i] = "tick"
                     /\ (i = 1 \/ t[i - 1] # "tick")
                     /\ (i = Len(t) \/ t[i + 1] # "tick")}

\* every fence has a blank line on both sides, every inline code span a
\* space on both sides, every heading a blank line before it
alreadyCorrect(t) ==
  /\ \A i \in 1..Len(t) :
       fenceAt(t, i) => blankLineBefore(t, i) /\ blankLineAfter(t, i + 2)
  /\ \A i \in 1..Len(t) :
       (t[i] = "tick" /\ ~fenceAt(t, i) /\ ~(i > 1 /\ fenceAt(t, i - 1)) /\ ~(i > 2 /\ fenceAt(t, i - 2)))
         => i \in inlineTicks(t)
  /\ \A i \in inlineTicks(t) :
       IF Cardinality({j \in inlineTicks(t) : j < i}) % 2 = 0
       THEN i > 1 /\ t[i - 1] = " " /\ \E j \in inlineTicks(t) : j > i + 1
       ELSE i < Len(t) /\ t[i + 1] = " "
  /\ \A i \in 1..Len(t) :
       (t[i] = "#" /\ (i = 1 \/ t[i - 1] # "#")) => blankLineBefore(t, i)

\* C23: a text whose fences are bounded by blank lines, whose inline code is
\* padded with spaces and whose headings follow a blank line is left
\* unchanged by the repair.
C23_RepairKeepsCorrectText ==
  (fmt.pc = "repaired" /\ alreadyCorrect(fmt.text)) => fmt.processedText = fmt.text

\* the position of the sources heading in a context, 0 when there is none
headingAt(context) ==
  IF \E i \in 1..Len(context) : context[i].kind = "sourcesHeading"
  THEN CHOOSE i \in 1..Len(context) : context[i].kind = "sourcesHeading"
  ELSE 0

firstAppearance(matches, title) ==
  CHOOSE i \in 1..Len(matches) :
    matches[i].title = title /\ \A j \in 1..i - 1 : matches[j].title # title

\* C24: hasSources is true exactly when there is at least one match; with
\* no match the context is empty; otherwise the context ends with the
\* sources block, which lists every distinct title of the matches exactly
\* once, in order of first appearance.
C24_SourcesBlockListsTitlesOnce ==
  fmt.pc = "done" =>
    LET context == fmt.result.readwiseContext
        listed == SubSeq(context, headingAt(context) + 1, Len(context))
    IN /\ fmt.result.hasSources <=> Len(fmt.matches) >= 1
       /\ Len(fmt.matches) = 0 => context = <<>>
       /\ Len(fmt.matches) >= 1 =>
            /\ headingAt(context) = Len(fmt.matches) + 1
            /\ \A i \in 1..Len(listed) : listed[i].kind = "source"
            /\ \A m \in 1..Len(fmt.matches) :
                 Cardinality({i \in 1..Len(listed) :
                                listed[i].title = fmt.matches[m].title}) = 1
            /\ \A i, j \in 1..Len(listed) :
                 i < j => firstAppearance(fmt.matches, listed[i].title)
                            < firstAppearance(fmt.matches, listed[j].title)

\* three matches of two titles, the first title given again after the second
C24_Witness ==
  /\ fmt.pc = "done"
  /\ Len(fmt.matches) = 3
  /\ fmt.matches[1].title = fmt.matches[3].title
  /\ fmt.matches[1].title # fmt.matches[2].title
  /\ fmt.result.hasSources

(***************************************************************************)
(* safeEmbed with any service error, under SpecSafeEmbedAnyError.          *)
(***************************************************************************)
\* C25: safeEmbed bisects and retries only on the context-length error; a
\* call answered with any other error is rejected with that error and
\* nothing is embedded for it again.
C25_OtherErrorsRethrown ==
  emb.pc # "idle" /\ emb.answer \in OtherErrors => emb.pc = "rejected"

(***************************************************************************)
(* The windows read by the chunk walk, under SpecChunker.                  *)
(***************************************************************************)
\* C26: every split-or-continue decision taken after paragraph i reads a
\* window that exists and is the window built for position i; the walk
\* never reads past the end of the windows list.
C26_DecisionReadsItsWindow ==
  chk.pc # "idle" /\ chk.decision # NoDecision =>
    /\ chk.decision.winIdx # PastEnd
    /\ chk.decision.winIdx = chk.decision.after

\* the ids of the sentences of the chunks, read in order
sentenceIds(list) ==
  LET items == concat(list)
      sentences == SelectSeq(items, LAMBDA item : item # ParaBreak)
  IN [k \in 1..Len(sentences) |-> sentences[k].id]

\* C27: reading the returned chunks in order gives the sentences of the
\* input in their original order (the sentences of the input are numbered
\* in that order).
C27_InputOrderPreserved ==
  chk.pc = "returned" =>
    \A k, l \in 1..Len(sentenceIds(chk.chunks)) :
      k < l => sentenceIds(chk.chunks)[k] < sentenceIds(chk.chunks)[l]

(***************************************************************************)
(* Properties of generateEmbeddingsBatch, under SpecBatch.                 *)
(***************************************************************************)
\* C28: generateEmbeddingsBatch returns one vector per input text, the i-th
\* vector being the embedding of the i-th text.
C28_OneVectorPerTextInOrder ==
  bat.pc = "returned" => bat.result = vectorsOf(bat.texts)

(***************************************************************************)
(* The document count of the TF-IDF model, under SpecTfIdf.                *)
(***************************************************************************)
\* C29: after any sequence of addDocument and build calls, the document
\* count used in the IDF equals the number of documents stored in the
\* corpus table.
C29_DocumentCountIsCorpusSize ==
  tfidf.documentCount = Cardinality(DOMAIN tfidf.documents)

(***************************************************************************)
(* Embedding before upsert in processDocument, under Spec.                 *)
(***************************************************************************)
\* C30: the header and every chunk of a document have their vectors before
\* the document's first upsert, and when the chunking or an embedding call
\* of a document fails, this run has written no record of the document and
\* the records the store had for it are unchanged.
C30_NoUpsertBeforeAllVectors ==
  /\ pc \in {"upsertHeader", "upsertChunk"} => Len(vectors) = Len(chunks) + 1
  /\ embedErr # "none" =>
       LET d == allDocuments[docIdx].id
       IN /\ {id \in writtenThisRun : id.doc = d} = {}
          /\ recordsOf(store, d) = recordsOf(storeAtStart, d)

\* an embedding call fails after the header has its vector, for a document
\* the store had records of when the run started
C30_Witness ==
  /\ embedErr # "none"
  /\ Len(vectors) >= 1
  /\ Len(chunks) >= 1
  /\ recordsOf(storeAtStart, allDocuments[docIdx].id) # {}

====
